---------------------------- MODULE Spec2Model ----------------------------
(***************************************************************************)
(* A model of the AFD command core (packages/rust/src): the command        *)
(* registry and its execute contract, the batch executor, and the pipeline *)
(* helpers (variable resolution, condition evaluation, aggregation), with  *)
(* the pipeline step loop that uses them.                                  *)
(*                                                                         *)
(* Strings that the code parses (variable references, JSON keys, JSON      *)
(* string values) are sequences of one-character strings.  Strings that    *)
(* the code only copies or compares (command names, ids, error codes) are  *)
(* TLA+ strings.  An f64 confidence c is the integer 100 * c.              *)
(***************************************************************************)
EXTENDS Integers, Sequences, FiniteSets, TLC

(***************************************************************************)
(* Option<T>                                                               *)
(***************************************************************************)
None == [some |-> FALSE]
Some(x) == [some |-> TRUE, v |-> x]

(***************************************************************************)
(* serde_json::Value.  Each variant has its own payload field so that two  *)
(* values of different variants are unequal without comparing payloads.    *)
(***************************************************************************)
JNull == [t |-> "null"]
JBool(b) == [t |-> "bool", b |-> b]
JNum(n) == [t |-> "num", n |-> n]
JStr(s) == [t |-> "str", s |-> s]
JArr(a) == [t |-> "arr", a |-> a]
JObj(o) == [t |-> "obj", o |-> o]

\* Keys and values used by the handlers and requests of the model.
kId == <<"i", "d">>
kEmail == <<"e", "m", "a", "i", "l">>
sMail == <<"a", "@", "b">>

UserWithEmail == JObj([k \in {kId, kEmail} |-> IF k = kId THEN JNum(1) ELSE JStr(sMail)])
UserNoEmail == JObj([k \in {kId} |-> JNum(1)])

(***************************************************************************)
(* Bounds of the model.                                                    *)
(***************************************************************************)
MaxCmds == 3

(***************************************************************************)
(* State.                                                                  *)
(***************************************************************************)
VARIABLES
    commands,       \* CommandRegistry.commands: name -> CommandDefinition
    invocations,    \* handler invocations in order, each with the call that made it
    ret,            \* the most recent completed call: its arguments and what it returned
    calls,          \* the execute calls suspended at command.execute(input, ctx).await
    bpc,            \* execute_batch: "idle", "loop" (top of the for loop), "await"
    request,        \* execute_batch: the BatchRequest being run
    cursor,         \* execute_batch: position of the into_iter() iterator (1-based)
    results,        \* execute_batch: the results vector
    stopped,        \* execute_batch: the stopped flag
    pending,        \* execute_batch: the result of the self.execute call being awaited
    dispatches,     \* execute_batch: the self.execute calls made so far, in order
    ppc,            \* pipeline run: "idle", "loop" (before the next step), "await"
    pipeline,       \* pipeline run: the PipelineRequest being run
    pctx,           \* pipeline run: the PipelineContext accumulated so far
    pcursor,        \* pipeline run: position of the next declared step (1-based)
    pstopped,       \* pipeline run: a failure has ended the run
    ppending,       \* pipeline run: the result of the registry execute being awaited
    pdispatches,    \* pipeline run: the registry execute calls made so far, in order
    aggSteps,       \* aggregation: the step results handed to the aggregate functions
    aggOut,         \* aggregation: what the aggregate functions returned for aggSteps
    evalIn,         \* a call of a pipeline or batch helper: the function and its arguments
    evalOut,        \* what that call returned
    STORE,          \* todo backend: the DashMap of todos, id -> Todo
    now,            \* todo backend: the reading of Utc::now()
    stats,          \* todo backend: the locals of the running StatsHandler::execute
    todoRet,        \* todo backend: the last call that returned and what it returned
    clearing,       \* todo backend: the shards the running STORE.clear() has passed, if any
    child,          \* desktop: SidecarState.child, the CommandChild held if any
    alive,          \* desktop: the sidecar processes that are running
    spawned,        \* desktop: the number of sidecar processes spawned so far
    starting,       \* desktop: the start_backend calls that have spawned and not yet stored
    reply           \* desktop: the last command invoked and what it returned

regVars == <<commands, invocations, ret, calls>>
batchVars == <<bpc, request, cursor, results, stopped, pending, dispatches>>
pipeVars == <<ppc, pipeline, pctx, pcursor, pstopped, ppending, pdispatches>>
aggVars == <<aggSteps, aggOut>>
evalVars == <<evalIn, evalOut>>
todoVars == <<STORE, now, stats, todoRet, clearing>>
deskVars == <<child, alive, spawned, starting, reply>>
appVars == <<todoVars, deskVars>>
vars == <<regVars, batchVars, pipeVars, aggVars, evalVars, appVars>>

\* No helper call has been made.
NoCall == [fn |-> "none"]
EvalIdle == evalIn = NoCall /\ evalOut = None

\* The todo backend and the desktop application as constructed: an empty
\* store, no stats call, SidecarState { child: Mutex::new(None) } and no
\* sidecar process.
NoStats == [pc |-> "idle", total |-> 0, cursor |-> 0, completed |-> 0, low |-> 0,
            medium |-> 0, high |-> 0]
TodoIdle == STORE = <<>> /\ now = 0 /\ stats = NoStats /\ todoRet = None /\ clearing = None
DeskIdle ==
    child = None /\ alive = {} /\ spawned = 0 /\ starting = {} /\ reply = None
AppIdle == TodoIdle /\ DeskIdle

(***************************************************************************)
(* CommandError and CommandResult.                                         *)
(***************************************************************************)
CommandError(code, message, suggestion, retryable) ==
    [code |-> code, message |-> message, suggestion |-> suggestion,
     retryable |-> retryable, details |-> None, cause |-> None]

\* result.rs: success(data)
success(data) ==
    [success |-> TRUE, data |-> Some(data), error |-> None, confidence |-> None,
     reasoning |-> None, sources |-> None, plan |-> None, alternatives |-> None,
     warnings |-> None, metadata |-> None]

\* result.rs: ResultOptions and its Default
ResultOptions(confidence, reasoning, sources, plan, alternatives, warnings, metadata) ==
    [confidence |-> confidence, reasoning |-> reasoning, sources |-> sources,
     plan |-> plan, alternatives |-> alternatives, warnings |-> warnings,
     metadata |-> metadata]
DefaultResultOptions == ResultOptions(None, None, None, None, None, None, None)

\* ResultOptions { confidence, ..Default::default() }
ConfidenceOnly(confidence) == [DefaultResultOptions EXCEPT !.confidence = confidence]

\* result.rs: success_with(data, options)
success_with(data, options) ==
    [success |-> TRUE, data |-> Some(data), error |-> None,
     confidence |-> options.confidence, reasoning |-> options.reasoning,
     sources |-> options.sources, plan |-> options.plan,
     alternatives |-> options.alternatives, warnings |-> options.warnings,
     metadata |-> options.metadata]

\* result.rs: failure(error)
failure(error) ==
    [success |-> FALSE, data |-> None, error |-> Some(error), confidence |-> None,
     reasoning |-> None, sources |-> None, plan |-> None, alternatives |-> None,
     warnings |-> None, metadata |-> None]

\* result.rs: failure_with(error, options), options being FailureOptions
failure_with(error, options) ==
    [success |-> FALSE, data |-> None, error |-> Some(error), confidence |-> None,
     reasoning |-> None, sources |-> None, plan |-> None, alternatives |-> None,
     warnings |-> options.warnings, metadata |-> options.metadata]

\* result.rs: CommandResult::default()
DefaultResult ==
    [success |-> FALSE, data |-> None, error |-> None, confidence |-> None,
     reasoning |-> None, sources |-> None, plan |-> None, alternatives |-> None,
     warnings |-> None, metadata |-> None]

\* result.rs: is_success(result), is_failure(result)
is_success(result) == result.success /\ result.data.some
is_failure(result) == (~result.success) /\ result.error.some

(***************************************************************************)
(* Command definitions and handlers.  A handler is an external             *)
(* collaborator: invoked with any input it may return any of               *)
(* HandlerResults.  Its error codes are its own; the engine's synthetic    *)
(* codes are not among them.                                               *)
(***************************************************************************)
CommandDefinition(name, description, handler) ==
    [name |-> name, description |-> description, handler |-> handler]

\* Two definitions share the name "a"; no definition of the model is named
\* "b", so "b" is a name that is never registered.
Names == {"a", "b"}
Defs == { CommandDefinition("a", "first", "h1"),
          CommandDefinition("a", "second", "h2") }

HandlerError == CommandError("RATE_LIMITED", "slow down", Some("retry later"), Some(TRUE))

HandlerResults == { success(UserWithEmail),
                    success_with(UserNoEmail, ConfidenceOnly(Some(80))),
                    failure(HandlerError) }

Inputs == { JObj(<<>>), JObj([k \in {kId} |-> JNum(7)]), JNull, JNum(3) }

\* CommandContext::default()
DefaultContext == [trace_id |-> None, timeout_ms |-> None, extra |-> <<>>]
TracedContext == [trace_id |-> Some("t1"), timeout_ms |-> Some(50), extra |-> <<>>]
Contexts == { None, Some(TracedContext), Some(DefaultContext) }

(***************************************************************************)
(* CommandRegistry::register.                                              *)
(***************************************************************************)
Ok == [ok |-> TRUE]
Err(e) == [ok |-> FALSE, err |-> e]

Insert(map, key, value) ==
    [k \in DOMAIN map \cup {key} |-> IF k = key THEN value ELSE map[k]]

\* Mutant: a duplicate name silently replaces the registered definition.
RegisterOutcome_Overwrite(cmds, command) ==
    [commands |-> Insert(cmds, command.name, command), result |-> Ok]

\* The registry after register(command), and what register returns.
RegisterOutcome(cmds, command) ==
    IF command.name \in DOMAIN cmds
    THEN [commands |-> cmds,
          result |-> Err("Command '" \o command.name \o "' is already registered")]
    ELSE [commands |-> Insert(cmds, command.name, command), result |-> Ok]

\* register takes &mut self: no execute or execute_batch call is in progress.
Register(command) ==
    /\ bpc = "idle" /\ ppc = "idle" /\ calls = {}
    /\ LET out == RegisterOutcome(commands, command) IN
        /\ commands' = out.commands
        /\ ret' = Some([op |-> "register", command |-> command, result |-> out.result])
    /\ invocations' = <<>>
    /\ UNCHANGED <<appVars, calls, batchVars, pipeVars, aggVars, evalVars>>

\* CommandRegistry::get
get(name) == IF name \in DOMAIN commands THEN Some(commands[name]) ELSE None

\* CommandRegistry::has
has(name) == name \in DOMAIN commands

(***************************************************************************)
(* CommandRegistry::execute.  hr is what the handler returns if invoked.   *)
(***************************************************************************)
\* Mutant: the miss is reported as a generic retryable error with no hint.
NotFoundResult_Retryable(name) ==
    [success |-> FALSE, data |-> None,
     error |-> Some(CommandError("INTERNAL_ERROR",
                                 "Command '" \o name \o "' not found",
                                 None, Some(TRUE))),
     confidence |-> None, reasoning |-> None, sources |-> None, plan |-> None,
     alternatives |-> None, warnings |-> None, metadata |-> None]

NotFoundResult(name) ==
    [success |-> FALSE, data |-> None,
     error |-> Some(CommandError("COMMAND_NOT_FOUND",
                                 "Command '" \o name \o "' not found",
                                 Some("Use 'afd tools' to see available commands"),
                                 Some(FALSE))),
     confidence |-> None, reasoning |-> None, sources |-> None, plan |-> None,
     alternatives |-> None, warnings |-> None, metadata |-> None]

\* One handler invocation: CommandDefinition::execute -> handler.execute.
\* call tells which call of execute made it: 0 for the calls that a running
\* execute_batch or pipeline makes itself, the call's id otherwise.
Invocation(command, input, ctx, hr) ==
    [command |-> command.name, handler |-> command.handler, input |-> input,
     context |-> ctx, returned |-> hr, call |-> 0]

\* Mutant: a retryable failure is retried once.
ExecuteOutcome_Retry(cmds, name, input, context, hr) ==
    IF name \notin DOMAIN cmds
    THEN [result |-> NotFoundResult(name), calls |-> <<>>]
    ELSE LET ctx == IF context.some THEN context.v ELSE DefaultContext
             call == Invocation(cmds[name], input, ctx, hr)
         IN [result |-> hr,
             calls |-> IF (~hr.success) /\ hr.error.v.retryable = Some(TRUE)
                       THEN <<call, call>> ELSE <<call>>]

\* Mutant: the supplied context is dropped and the result's trust fields too.
ExecuteOutcome_Rewrap(cmds, name, input, context, hr) ==
    IF name \notin DOMAIN cmds
    THEN [result |-> NotFoundResult(name), calls |-> <<>>]
    ELSE [result |-> IF hr.success THEN success(hr.data.v) ELSE hr,
          calls |-> << Invocation(cmds[name], input, DefaultContext, hr) >>]

\* What execute returns, and the handler invocations it makes.
ExecuteOutcome(cmds, name, input, context, hr) ==
    IF name \notin DOMAIN cmds
    THEN [result |-> NotFoundResult(name), calls |-> <<>>]
    ELSE LET ctx == IF context.some THEN context.v ELSE DefaultContext IN
         [result |-> hr, calls |-> << Invocation(cmds[name], input, ctx, hr) >>]

\* execute takes &self and awaits the handler, so calls of execute overlap
\* with each other and with a suspended execute_batch.  At most MaxInFlight
\* direct calls are suspended at a time.
MaxInFlight == 2

\* Ids of direct calls: one for each call in flight and one for the call
\* that returned last.
CallIds == 1..(MaxInFlight + 1)
InFlight == {c.id : c \in calls}
LastReturned == IF ret.some /\ ret.v.op = "execute" THEN {ret.v.call} ELSE {}
FreshCall == CHOOSE k \in CallIds \ (InFlight \cup LastReturned) :
                \A j \in CallIds \ (InFlight \cup LastReturned) : k <= j

\* The invocations cs as made by call k.
CalledBy(cs, k) == [i \in 1..Len(cs) |-> [cs[i] EXCEPT !.call = k]]

\* The invocations made by call k.
InvocationsOf(k) ==
    LET ByCall(e) == e.call = k IN SelectSeq(invocations, ByCall)

\* The invocations that are still of interest: those of a running
\* execute_batch or pipeline and those of the calls in keep.
Kept(invs, keep) ==
    LET Live(e) == e.call = 0 \/ e.call \in keep IN SelectSeq(invs, Live)

ExecuteReturned(k, name, input, context, result) ==
    Some([op |-> "execute", call |-> k, name |-> name, input |-> input,
          context |-> context, result |-> result])

\* A direct call of registry.execute(name, input, context), up to its await:
\* a miss returns at once, a hit enters the handler, which will return hr.
Execute(name, input, context) ==
    /\ Cardinality(calls) < MaxInFlight
    /\ \E hr \in HandlerResults :
          LET out == ExecuteOutcome(commands, name, input, context, hr) IN
          IF name \notin DOMAIN commands
          THEN /\ ret' = ExecuteReturned(FreshCall, name, input, context, out.result)
               /\ invocations' = Kept(invocations, InFlight)
               /\ calls' = calls
          ELSE /\ calls' = calls \cup {[id |-> FreshCall, name |-> name, input |-> input,
                                        context |-> context, result |-> out.result]}
               /\ invocations' = invocations \o CalledBy(out.calls, FreshCall)
               /\ ret' = ret
    /\ UNCHANGED <<appVars, commands, batchVars, pipeVars, aggVars, evalVars>>

\* The handler of a suspended call returns and execute returns its result.
ExecuteReturn(c) ==
    /\ c \in calls
    /\ calls' = calls \ {c}
    /\ ret' = ExecuteReturned(c.id, c.name, c.input, c.context, c.result)
    /\ invocations' = Kept(invocations, InFlight)
    /\ UNCHANGED <<appVars, commands, batchVars, pipeVars, aggVars, evalVars>>

(***************************************************************************)
(* Batch types (batch.rs).                                                 *)
(***************************************************************************)
\* BatchCommand::new(id, command, input)
BatchCommand(id, command, input) ==
    [id |-> id, command |-> command, input |-> input, tags |-> None, priority |-> None]

BatchOptions(continue_on_error, max_failures) ==
    [continue_on_error |-> continue_on_error, max_concurrency |-> None,
     timeout_ms |-> None, max_failures |-> max_failures]

\* BatchOptions::default()
DefaultBatchOptions == BatchOptions(FALSE, None)

BatchRequest(cmds, options) == [commands |-> cmds, options |-> options, context |-> None]

\* BatchSummary::new(total, succeeded, failed, skipped)
BatchSummaryNew(total, succeeded, failed, skipped) ==
    [total |-> total, succeeded |-> succeeded, failed |-> failed, skipped |-> skipped,
     average_confidence |-> None]

BatchCommandResult(id, command, result, duration_ms) ==
    [id |-> id, command |-> command, result |-> result, duration_ms |-> duration_ms]

\* The requests of the model: up to MaxCmds commands, any options.
BatchCommands == { BatchCommand("x", "a", JObj(<<>>)),
                   BatchCommand("y", "b", JObj([k \in {kId} |-> JNum(7)])) }
SeqsUpTo(S, n) == UNION { [1..k -> S] : k \in 0..n }
\* The options of the model: max_failures is set only beside
\* continue_on_error, for without it the first failure stops the batch.
BatchOptionSets ==
    { BatchOptions(FALSE, None), BatchOptions(TRUE, None), BatchOptions(TRUE, Some(1)) }
BatchRequests ==
    { BatchRequest(cmds, options) :
        cmds \in SeqsUpTo(BatchCommands, MaxCmds), options \in BatchOptionSets }

\* Elapsed times, in milliseconds, that cmd_start.elapsed() may give.
Durations == {0, 4}

RECURSIVE SumDurations(_)
SumDurations(rs) ==
    IF rs = <<>> THEN 0 ELSE rs[1].duration_ms.v + SumDurations(Tail(rs))

\* Whole milliseconds the call may spend outside its cmd_start..elapsed()
\* readings (before the loop, between two commands, on skipped commands):
\* with 0 that time stays under one millisecond.
MaxOverhead == 0

\* What the whole-call reading may exceed the sum of the per-command readings
\* by: each of the Len(rs) readings drops its own fraction of a millisecond,
\* and those fractions and the time outside the readings add up to less
\* than Len(rs) + MaxOverhead + 1 milliseconds.
Overheads(rs) == 0..(Len(rs) + MaxOverhead)

\* start_time.elapsed().as_millis() at the end of the loop: the clock runs
\* over the whole call, so the reading is at least the sum of the
\* per-command readings, each of which is truncated on its own.
TotalTimes(rs) == {SumDurations(rs) + o : o \in Overheads(rs)}

\* Mutant: every result that is not a failure of its own handler counts.
CountSucceeded_CountsSkipped(rs) ==
    Cardinality({i \in 1..Len(rs) :
                   rs[i].result.success
                   \/ (IF rs[i].result.error.some
                       THEN rs[i].result.error.v.code = "COMMAND_SKIPPED" ELSE FALSE)})

\* results.iter().filter(|r| r.result.success).count()
CountSucceeded(rs) == Cardinality({i \in 1..Len(rs) : rs[i].result.success})

(***************************************************************************)
(* CommandRegistry::execute_batch.                                         *)
(***************************************************************************)
\* The placeholder pushed for a command met once stopped is set.
SkippedResult(cmd) ==
    BatchCommandResult(cmd.id, cmd.command,
        [success |-> FALSE, data |-> None,
         error |-> Some(CommandError("COMMAND_SKIPPED",
                                     "Command skipped due to previous error",
                                     None, None)),
         confidence |-> None, reasoning |-> None, sources |-> None, plan |-> None,
         alternatives |-> None, warnings |-> None, metadata |-> None],
        Some(0))

\* The entry pushed for a dispatched command.
DispatchedResult(cmd, result, duration_ms) ==
    BatchCommandResult(cmd.id, cmd.command, result, Some(duration_ms))

\* Mutant: a retryable failure does not stop the batch.
StopsAfter_UnlessRetryable(result, options) ==
    /\ ~result.success
    /\ ~options.continue_on_error
    /\ result.error.v.retryable # Some(TRUE)

\* Mutant: continue_on_error is not consulted.
StopsAfter_IgnoresOption(result, options) == ~result.success

\* Mutant: an unregistered name does not stop the batch.
StopsAfter_UnlessNotFound(result, options) ==
    /\ ~result.success
    /\ ~options.continue_on_error
    /\ result.error.v.code # "COMMAND_NOT_FOUND"

\* Whether the loop sets stopped after recording result.
StopsAfter(result, options) == (~result.success) /\ ~options.continue_on_error

\* The BatchResult built after the loop.
BuildBatchResult(rs, total_ms) ==
    LET total == Len(rs)
        succeeded == CountSucceeded(rs)
        failed == total - succeeded
    IN [success |-> failed = 0, results |-> rs,
        summary |-> BatchSummaryNew(total, succeeded, failed, 0),
        timing |-> [total_ms |-> Some(total_ms),
                    average_ms |-> IF total > 0 THEN Some(total_ms \div total) ELSE None],
        error |-> None]

\* Mutant: the empty request falls through to the general path.
EmptyBatchResult_FallThrough == BuildBatchResult(<<>>, 0)

\* The request-level failure returned for an empty request.
EmptyBatchResult ==
    [success |-> FALSE, results |-> <<>>,
     summary |-> BatchSummaryNew(0, 0, 0, 0),
     timing |-> [total_ms |-> Some(0), average_ms |-> None],
     error |-> Some(CommandError("INVALID_BATCH_REQUEST",
                                 "Batch request must contain at least one command",
                                 Some("Provide an array of commands to execute"),
                                 Some(FALSE)))]

NoRequest == BatchRequest(<<>>, DefaultBatchOptions)

BatchReturn(req, result) == Some([op |-> "execute_batch", request |-> req, result |-> result])

\* The call, up to the first iteration of the loop.  execute_batch keeps no
\* state between calls, so a behaviour runs one call, from any registry.
StartBatch(req) ==
    /\ bpc = "idle" /\ ppc = "idle" /\ ret = None
    /\ IF req.commands = <<>>
       THEN /\ ret' = BatchReturn(req, EmptyBatchResult)
            /\ UNCHANGED batchVars
       ELSE /\ ret' = None
            /\ bpc' = "loop"
            /\ request' = req
            /\ cursor' = 1
            /\ results' = <<>>
            /\ stopped' = FALSE
            /\ pending' = None
            /\ dispatches' = <<>>
    /\ UNCHANGED <<appVars, commands, calls, invocations, pipeVars, aggVars, evalVars>>

\* An iteration with stopped set: push the placeholder and continue.
BatchSkip ==
    /\ bpc = "loop" /\ cursor <= Len(request.commands) /\ stopped
    /\ results' = Append(results, SkippedResult(request.commands[cursor]))
    /\ cursor' = cursor + 1
    /\ UNCHANGED <<appVars, regVars, bpc, request, stopped, pending, dispatches, pipeVars, aggVars,
                   evalVars>>

\* An iteration with stopped clear: self.execute(&cmd.command, cmd.input, None).
BatchDispatch ==
    /\ bpc = "loop" /\ cursor <= Len(request.commands) /\ ~stopped
    /\ \E hr \in HandlerResults :
          LET cmd == request.commands[cursor]
              out == ExecuteOutcome(commands, cmd.command, cmd.input, None, hr)
          IN /\ invocations' = invocations \o out.calls
             /\ pending' = Some(out.result)
             /\ dispatches' = Append(dispatches,
                                     [name |-> cmd.command, input |-> cmd.input,
                                      context |-> None, returned |-> out.result])
    /\ bpc' = "await"
    /\ UNCHANGED <<appVars, commands, calls, ret, request, cursor, results, stopped, pipeVars, aggVars,
                   evalVars>>

\* The awaited execute returns: push its result, set stopped on a failure.
BatchRecord ==
    /\ bpc = "await"
    /\ \E d \in Durations :
          results' = Append(results,
                            DispatchedResult(request.commands[cursor], pending.v, d))
    /\ stopped' = (stopped \/ StopsAfter(pending.v, request.options))
    /\ cursor' = cursor + 1
    /\ pending' = None
    /\ bpc' = "loop"
    /\ UNCHANGED <<appVars, regVars, request, dispatches, pipeVars, aggVars, evalVars>>

\* The loop is over: build and return the BatchResult.
BatchFinish ==
    /\ bpc = "loop" /\ cursor > Len(request.commands)
    /\ \E total_ms \in TotalTimes(results) :
          ret' = BatchReturn(request, BuildBatchResult(results, total_ms))
    /\ bpc' = "idle"
    /\ request' = NoRequest
    /\ cursor' = 1
    /\ results' = <<>>
    /\ stopped' = FALSE
    /\ pending' = None
    /\ UNCHANGED <<appVars, commands, calls, invocations, dispatches, pipeVars, aggVars, evalVars>>

(***************************************************************************)
(* Text helpers (str::starts_with, str::find, str::split, str::parse).     *)
(***************************************************************************)
Digits == {"0", "1", "2", "3", "4", "5", "6", "7", "8", "9"}
LowerCase == {"a", "b", "c", "d", "e", "f", "g", "h", "i", "j", "k", "l", "m",
              "n", "o", "p", "q", "r", "s", "t", "u", "v", "w", "x", "y", "z"}
UpperCase == {"A", "B", "C", "D", "E", "F", "G", "H", "I", "J", "K", "L", "M",
              "N", "O", "P", "Q", "R", "S", "T", "U", "V", "W", "X", "Y", "Z"}
\* One element of a string is one Unicode scalar value.  U+0663
\* ARABIC-INDIC DIGIT THREE is written by its code point.
ArabicIndicThree == "U0663"
\* Letters outside ASCII that the strings of the model use.
UnicodeLetters == {"é"}
\* Decimal digits (general category Nd) outside ASCII.
UnicodeDigits == {ArabicIndicThree}
\* The regex class \d, which is Unicode-aware: every Nd character.
RegexDigits == Digits \cup UnicodeDigits
\* The regex class \w, which is Unicode-aware: letters, digits and "_".
WordChars == LowerCase \cup UpperCase \cup UnicodeLetters \cup RegexDigits \cup {"_"}

StartsWith(s, prefix) ==
    Len(s) >= Len(prefix) /\ SubSeq(s, 1, Len(prefix)) = prefix

\* s[n..]: s without its first n characters.
DropChars(s, n) == SubSeq(s, n + 1, Len(s))

\* The least position of a set of positions, or 0 if there is none.
FirstOf(hits) == IF hits = {} THEN 0 ELSE CHOOSE i \in hits : \A j \in hits : i <= j

\* The 1-based position of the first c in s, or 0.
FindChar(s, c) == FirstOf({i \in 1..Len(s) : s[i] = c})

RECURSIVE SplitOn(_, _)
\* s split around its first c, which is at position i (0: there is none).
SplitAt(s, c, i) ==
    IF i = 0 THEN <<s>>
    ELSE <<SubSeq(s, 1, i - 1)>> \o SplitOn(DropChars(s, i), c)

\* s.split(c).collect()
SplitOn(s, c) == SplitAt(s, c, FindChar(s, c))

DigitValue(c) ==
    CASE c = "0" -> 0 [] c = "1" -> 1 [] c = "2" -> 2 [] c = "3" -> 3 [] c = "4" -> 4
      [] c = "5" -> 5 [] c = "6" -> 6 [] c = "7" -> 7 [] c = "8" -> 8 [] c = "9" -> 9

AllIn(s, chars) == \A i \in 1..Len(s) : s[i] \in chars

\* The number a non-empty string of ASCII digits writes.
RECURSIVE DigitsValue(_)
DigitsValue(ds) ==
    IF Len(ds) = 1 THEN DigitValue(ds[1])
    ELSE 10 * DigitsValue(SubSeq(ds, 1, Len(ds) - 1)) + DigitValue(ds[Len(ds)])

\* str::parse::<usize>().ok() of a string the regex class \d+ matched: only
\* ASCII digits parse (no overflow at the lengths of the model).
ParseUsize(ds) ==
    IF ds # <<>> /\ AllIn(ds, Digits) THEN Some(DigitsValue(ds)) ELSE None

\* The length of the longest prefix of s that \d+ matches.
DigitRun(s) ==
    Len(s) - Cardinality({i \in 1..Len(s) : \E j \in 1..i : s[j] \notin RegexDigits})

(***************************************************************************)
(* serde_json::Value accessors.                                            *)
(***************************************************************************)
\* Value::get(&str)
GetKey(value, key) ==
    IF value.t = "obj" /\ key \in DOMAIN value.o THEN Some(value.o[key]) ELSE None

\* Value::get(usize), index zero-based
GetIndex(value, index) ==
    IF value.t = "arr" /\ index < Len(value.a) THEN Some(value.a[index + 1]) ELSE None

\* Value::as_f64
as_f64(value) == IF value.t = "num" THEN Some(value.n) ELSE None

\* Value::is_null
is_null(value) == value.t = "null"

(***************************************************************************)
(* get_nested_value (pipeline.rs).                                         *)
(***************************************************************************)
\* The captures of ^(\w+)\[(\d+)\]$ on a part of length n whose first "[" is
\* at position i (0: there is none), or None.
ArrayPartAt(part, i, n) ==
    IF /\ i > 1
       /\ n >= i + 2
       /\ part[n] = "]"
       /\ AllIn(SubSeq(part, 1, i - 1), WordChars)
       /\ AllIn(SubSeq(part, i + 1, n - 1), RegexDigits)
    THEN Some([prop |-> SubSeq(part, 1, i - 1),
               index |-> SubSeq(part, i + 1, n - 1)])
    ELSE None

ArrayPart(part) == ArrayPartAt(part, FindChar(part, "["), Len(part))

\* current.get(prop)?.get(index)?, inner being current.get(prop)
IndexInto(inner, index) == IF inner.some THEN GetIndex(inner.v, index) ELSE None

\* The array arm of the loop: index is captures.get(2) parsed, and a failed
\* parse leaves the function with None.
ArrayStep(current, prop, index) ==
    IF index.some THEN IndexInto(GetKey(current, prop), index.v) ELSE None

\* One iteration of the loop over parts, cap being the regex captures of
\* part: the new current, or None.
NestedStepWith(current, part, cap) ==
    IF cap.some THEN ArrayStep(current, cap.v.prop, ParseUsize(cap.v.index))
    ELSE GetKey(current, part)

NestedStep(current, part) == NestedStepWith(current, part, ArrayPart(part))

RECURSIVE NestedWalk(_, _)
\* Mutant: a segment that finds nothing yields null and the walk ends.
NestedFrom_Defaults(next, parts) ==
    IF next.some THEN NestedWalk(next.v, parts) ELSE Some(JNull)

\* The rest of the loop after an iteration that gave next.
NestedFrom(next, parts) == IF next.some THEN NestedWalk(next.v, parts) ELSE None

NestedWalk(current, parts) ==
    IF parts = <<>> THEN Some(current)
    ELSE NestedFrom(NestedStep(current, Head(parts)), Tail(parts))

get_nested_value(obj, path) == NestedWalk(obj, SplitOn(path, "."))

(***************************************************************************)
(* Pipeline types (pipeline.rs).                                           *)
(***************************************************************************)
StepMetadata(confidence, reasoning, sources, warnings, alternatives) ==
    [confidence |-> confidence, reasoning |-> reasoning, sources |-> sources,
     warnings |-> warnings, alternatives |-> alternatives]

StepResult(index, alias, command, status, data, error, execution_time_ms, metadata) ==
    [index |-> index, alias |-> alias, command |-> command, status |-> status,
     data |-> data, error |-> error, execution_time_ms |-> execution_time_ms,
     metadata |-> metadata]

\* StepStatus
StepStatuses == {"success", "failure", "skipped"}

PipelineContext(pipeline_input, previous_result, steps) ==
    [pipeline_input |-> pipeline_input, previous_result |-> previous_result,
     steps |-> steps]

\* PipelineContext::default()
DefaultPipelineContext == PipelineContext(None, None, <<>>)

PipelineStep(command, input, alias, when) ==
    [command |-> command, input |-> input, alias |-> alias, when |-> when,
     stream |-> None]

PipelineOptions(continue_on_failure) ==
    [continue_on_failure |-> continue_on_failure, timeout_ms |-> None,
     parallel |-> None]

\* create_pipeline(steps, options)
create_pipeline(steps, options) == [id |-> None, steps |-> steps, options |-> options]

\* PipelineCondition
Exists(ref) == [c |-> "exists", ref |-> ref]
Eq(ref, expected) == [c |-> "eq", ref |-> ref, expected |-> expected]
Ne(ref, expected) == [c |-> "ne", ref |-> ref, expected |-> expected]
Gt(ref, threshold) == [c |-> "gt", ref |-> ref, threshold |-> threshold]
Gte(ref, threshold) == [c |-> "gte", ref |-> ref, threshold |-> threshold]
Lt(ref, threshold) == [c |-> "lt", ref |-> ref, threshold |-> threshold]
Lte(ref, threshold) == [c |-> "lte", ref |-> ref, threshold |-> threshold]
And(conditions) == [c |-> "and", conditions |-> conditions]
Or(conditions) == [c |-> "or", conditions |-> conditions]
Not(inner) == [c |-> "not", inner |-> inner]

(***************************************************************************)
(* resolve_variable and resolve_variables (pipeline.rs).                   *)
(***************************************************************************)
rPrev == <<"$", "p", "r", "e", "v">>
rFirst == <<"$", "f", "i", "r", "s", "t">>
rInput == <<"$", "i", "n", "p", "u", "t">>
rSteps == <<"$", "s", "t", "e", "p", "s">>

\* The captures of ^\$steps\[(\d+)\] on "$steps[" \o rest, k being the length
\* of the digits that rest begins with, or None.
StepsIndexCaptures(rest, k) ==
    IF k >= 1 /\ Len(rest) > k /\ rest[k + 1] = "]"
    THEN Some([index |-> SubSeq(rest, 1, k),
               remaining |-> DropChars(rest, k + 1)])
    ELSE None

\* The captures of ^\$steps\[(\d+)\] on reference, or None.
StepsIndexMatch(reference) ==
    IF StartsWith(reference, rSteps \o <<"[">>)
    THEN StepsIndexCaptures(DropChars(reference, 7), DigitRun(DropChars(reference, 7)))
    ELSE None

\* get_nested_value(data.as_ref()?, path)
NestedOf(data, path) == IF data.some THEN get_nested_value(data.v, path) ELSE None

\* The $steps[n] arm once the step is found.
StepTarget(step, remaining) ==
    IF StartsWith(remaining, <<".">>) THEN NestedOf(step.data, DropChars(remaining, 1))
    ELSE step.data

\* context.steps.get(index)?, index being captures.get(1) parsed: the step's
\* one-based position in steps, or 0 for None.
StepPosition(index, steps) ==
    IF index.some /\ index.v < Len(steps) THEN index.v + 1 ELSE 0

\* A variant that counts steps from one.
StepByIndex_OneBased(cap, steps) ==
    IF StepPosition(ParseUsize(cap.index), <<0>> \o steps) <= 1 THEN None
    ELSE StepTarget(steps[StepPosition(ParseUsize(cap.index), <<0>> \o steps) - 1],
                    cap.remaining)

\* The $steps[n] arm: the captures parsed, the step looked up, its data or
\* the nested value under it returned.
StepByIndex(cap, steps) ==
    IF StepPosition(ParseUsize(cap.index), steps) = 0 THEN None
    ELSE StepTarget(steps[StepPosition(ParseUsize(cap.index), steps)], cap.remaining)

\* The step at position i, None for position 0.
StepAt(steps, i) == IF i = 0 THEN None ELSE Some(steps[i])

\* A variant that looks only among the steps that succeeded.
FindAlias_SuccessOnly(steps, alias) ==
    StepAt(steps, FirstOf({i \in 1..Len(steps) :
                             steps[i].alias = Some(alias) /\ steps[i].status = "success"}))

\* context.steps.iter().find(|s| s.alias.as_deref() == Some(alias))
FindAlias(steps, alias) ==
    StepAt(steps, FirstOf({i \in 1..Len(steps) : steps[i].alias = Some(alias)}))

\* The $steps.alias arm once the alias is looked up.
AliasTarget(found, rest, dot_index) ==
    IF ~found.some THEN None
    ELSE IF dot_index > 0 THEN NestedOf(found.v.data, DropChars(rest, dot_index))
    ELSE found.v.data

\* The $steps.alias arm: rest is reference[7..], dot_index the position of
\* its first "." (0: there is none).
StepByAliasAt(rest, dot_index, steps) ==
    AliasTarget(FindAlias(steps, IF dot_index > 0 THEN SubSeq(rest, 1, dot_index - 1)
                                 ELSE rest),
                rest, dot_index)

StepByAlias(rest, steps) == StepByAliasAt(rest, FindChar(rest, "."), steps)

\* A variant that takes the last recorded step for the previous result.
PrevData_LastStep(context) ==
    IF context.steps # <<>> THEN context.steps[Len(context.steps)].data ELSE None

\* context.previous_result.as_ref().and_then(|r| r.data.clone())
PrevData(context) ==
    IF context.previous_result.some THEN context.previous_result.v.data ELSE None

\* context.steps.first().and_then(|s| s.data.clone())
FirstData(context) ==
    IF context.steps # <<>> THEN context.steps[1].data ELSE None

resolve_variable(reference, context) ==
    IF ~StartsWith(reference, <<"$">>) THEN Some(JStr(reference))
    ELSE IF reference = rPrev THEN PrevData(context)
    ELSE IF reference = rFirst THEN FirstData(context)
    ELSE IF reference = rInput THEN context.pipeline_input
    ELSE IF StepsIndexMatch(reference).some
    THEN StepByIndex(StepsIndexMatch(reference).v, context.steps)
    ELSE IF StartsWith(reference, rSteps \o <<".">>)
    THEN StepByAlias(DropChars(reference, 7), context.steps)
    ELSE IF StartsWith(reference, rPrev \o <<".">>)
    THEN NestedOf(PrevData(context), DropChars(reference, 6))
    ELSE IF StartsWith(reference, rFirst \o <<".">>)
    THEN NestedOf(FirstData(context), DropChars(reference, 7))
    ELSE IF StartsWith(reference, rInput \o <<".">>)
    THEN NestedOf(context.pipeline_input, DropChars(reference, 7))
    ELSE None

\* Option::unwrap_or(Value::Null)
UnwrapOrNull(opt) == IF opt.some THEN opt.v ELSE JNull

\* A variant that resolves a reference only when it is the whole input.
resolve_variables_TopLevel(input, context) ==
    IF input.t = "str" /\ StartsWith(input.s, <<"$">>)
    THEN UnwrapOrNull(resolve_variable(input.s, context))
    ELSE input

RECURSIVE resolve_variables_Rescan(_, _)
\* Mutant: a substituted value that is itself a reference is looked up a
\* second time.
resolve_variables_Rescan(input, context) ==
    IF input.t = "str" /\ StartsWith(input.s, <<"$">>)
    THEN resolve_variables_TopLevel(UnwrapOrNull(resolve_variable(input.s, context)),
                                    context)
    ELSE IF input.t = "arr"
    THEN JArr([i \in 1..Len(input.a) |-> resolve_variables_Rescan(input.a[i], context)])
    ELSE IF input.t = "obj"
    THEN JObj([k \in DOMAIN input.o |-> resolve_variables_Rescan(input.o[k], context)])
    ELSE input

RECURSIVE resolve_variables(_, _)
resolve_variables(input, context) ==
    IF input.t = "str" /\ StartsWith(input.s, <<"$">>)
    THEN UnwrapOrNull(resolve_variable(input.s, context))
    ELSE IF input.t = "arr"
    THEN JArr([i \in 1..Len(input.a) |-> resolve_variables(input.a[i], context)])
    ELSE IF input.t = "obj"
    THEN JObj([k \in DOMAIN input.o |-> resolve_variables(input.o[k], context)])
    ELSE input

(***************************************************************************)
(* evaluate_condition (pipeline.rs).                                       *)
(***************************************************************************)
\* value.and_then(|v| v.as_f64())
AsNumber(value) == IF value.some THEN as_f64(value.v) ELSE None

\* Mutant: $exists only asks whether the reference resolves.
ExistsHolds_IgnoresNull(value) == value.some

\* Mutant: $lte as the negation of $gt.
LteHolds_NotGt(n, threshold) == ~(IF n.some THEN n.v > threshold ELSE FALSE)

\* Mutant: $exists on a reference that does not resolve is taken as true.
ExistsHolds_MissingIsTrue(value) == IF value.some THEN ~is_null(value.v) ELSE TRUE

\* The Exists arm: value.is_some() && !value.map(is_null).unwrap_or(true)
ExistsHolds(value) == value.some /\ ~(IF value.some THEN is_null(value.v) ELSE TRUE)

\* .map(|n| n > threshold).unwrap_or(false), and likewise >=, <, <=
GtHolds(n, threshold) == IF n.some THEN n.v > threshold ELSE FALSE
GteHolds(n, threshold) == IF n.some THEN n.v >= threshold ELSE FALSE
LtHolds(n, threshold) == IF n.some THEN n.v < threshold ELSE FALSE
LteHolds(n, threshold) == IF n.some THEN n.v <= threshold ELSE FALSE

\* The conditions that begin with let value = resolve_variable(ref, context).
RefConditions == {"exists", "eq", "ne", "gt", "gte", "lt", "lte"}

RECURSIVE evaluate_condition(_, _)
RECURSIVE AllHold(_, _)
RECURSIVE AnyHolds(_, _)

\* Mutant: $or looks at its first sub-condition only.
AnyHolds_FirstOnly(conditions, context) ==
    IF conditions = <<>> THEN FALSE ELSE evaluate_condition(Head(conditions), context)

\* conditions.iter().all(|c| evaluate_condition(c, context))
AllHold(conditions, context) ==
    IF conditions = <<>> THEN TRUE
    ELSE IF evaluate_condition(Head(conditions), context)
    THEN AllHold(Tail(conditions), context)
    ELSE FALSE

\* conditions.iter().any(|c| evaluate_condition(c, context))
AnyHolds(conditions, context) ==
    IF conditions = <<>> THEN FALSE
    ELSE IF evaluate_condition(Head(conditions), context)
    THEN TRUE
    ELSE AnyHolds(Tail(conditions), context)

\* The match arms, value being resolve_variable(ref, context) in the arms
\* that have a reference.
ConditionArm(condition, context, value) ==
    CASE condition.c = "exists" -> ExistsHolds(value)
      [] condition.c = "eq" -> value = Some(condition.expected)
      [] condition.c = "ne" -> value # Some(condition.expected)
      [] condition.c = "gt" -> GtHolds(AsNumber(value), condition.threshold)
      [] condition.c = "gte" -> GteHolds(AsNumber(value), condition.threshold)
      [] condition.c = "lt" -> LtHolds(AsNumber(value), condition.threshold)
      [] condition.c = "lte" -> LteHolds(AsNumber(value), condition.threshold)
      [] condition.c = "and" -> AllHold(condition.conditions, context)
      [] condition.c = "or" -> AnyHolds(condition.conditions, context)
      [] condition.c = "not" -> ~evaluate_condition(condition.inner, context)

evaluate_condition(condition, context) ==
    ConditionArm(condition, context,
                 IF condition.c \in RefConditions
                 THEN resolve_variable(condition.ref, context)
                 ELSE None)

(***************************************************************************)
(* Metadata aggregation (pipeline.rs).  A confidence c is held as 100 * c. *)
(***************************************************************************)
\* unwrap_or(1.0)
DefaultConfidence == 100

\* f64::INFINITY, the seed of the fold: above every confidence.
Infinity == 1000000

\* f64::min
Min(a, b) == IF a <= b THEN a ELSE b

\* s.metadata.as_ref().and_then(|m| m.confidence)
MetaConfidence(s) == IF s.metadata.some THEN s.metadata.v.confidence ELSE None

\* s.metadata.as_ref().and_then(|m| m.confidence).unwrap_or(1.0)
ConfidenceOf(s) ==
    IF MetaConfidence(s).some THEN MetaConfidence(s).v ELSE DefaultConfidence

\* Mutant: every step is kept, whatever its status.
IsSuccessStep_Any(s) == s.status \in StepStatuses

\* |s| s.status == StepStatus::Success
IsSuccessStep(s) == s.status = "success"

RECURSIVE SuccessfulSteps(_)
\* steps.iter().filter(|s| s.status == StepStatus::Success)
SuccessfulSteps(steps) ==
    IF steps = <<>> THEN <<>>
    ELSE IF IsSuccessStep(Head(steps))
    THEN <<Head(steps)>> \o SuccessfulSteps(Tail(steps))
    ELSE SuccessfulSteps(Tail(steps))

RECURSIVE FoldMin(_, _)
\* confidences.iter().cloned().fold(acc, f64::min)
FoldMin(acc, confidences) ==
    IF confidences = <<>> THEN acc
    ELSE FoldMin(Min(acc, Head(confidences)), Tail(confidences))

aggregate_pipeline_confidence(steps) ==
    LET kept == SuccessfulSteps(steps)
        confidences == [i \in 1..Len(kept) |-> ConfidenceOf(kept[i])]
    IN IF confidences = <<>> THEN 0 ELSE FoldMin(Infinity, confidences)

RECURSIVE ReasoningOf(_)
\* filter_map over the successful steps that carry a reasoning
ReasoningOf(kept) ==
    IF kept = <<>> THEN <<>>
    ELSE LET s == Head(kept)
             r == IF s.metadata.some THEN s.metadata.v.reasoning ELSE None
         IN (IF r.some
             THEN <<[step_index |-> s.index, command |-> s.command, reasoning |-> r.v]>>
             ELSE <<>>) \o ReasoningOf(Tail(kept))

aggregate_pipeline_reasoning(steps) == ReasoningOf(SuccessfulSteps(steps))

\* Mutant: only the first item of a metadata list is taken.
MetaList_FirstOnly(s, field) ==
    IF s.metadata.some /\ s.metadata.v[field].some /\ s.metadata.v[field].v # <<>>
    THEN <<Head(s.metadata.v[field].v)>> ELSE <<>>

\* The items of one optional metadata list of a step.
MetaList(s, field) ==
    IF s.metadata.some /\ s.metadata.v[field].some THEN s.metadata.v[field].v ELSE <<>>

\* PipelineWarning::from((warning, step_index, step_alias))
PipelineWarningFrom(warning, step_index, step_alias) ==
    [code |-> warning.code, message |-> warning.message, step_index |-> step_index,
     step_alias |-> step_alias]

\* PipelineSource::from((source, step_index))
PipelineSourceFrom(source, step_index) ==
    [name |-> source.name, step_index |-> step_index, url |-> source.url]

\* PipelineAlternative::from((alt, step_index))
PipelineAlternativeFrom(alt, step_index) ==
    [data |-> alt.data, reason |-> alt.reason, step_index |-> step_index,
     confidence |-> alt.confidence]

\* The inner loops: one push per item of the step's list.
StepWarnings(step, ws) ==
    [i \in 1..Len(ws) |-> PipelineWarningFrom(ws[i], step.index, step.alias)]
StepSources(step, ss) == [i \in 1..Len(ss) |-> PipelineSourceFrom(ss[i], step.index)]
StepAlternatives(step, as) ==
    [i \in 1..Len(as) |-> PipelineAlternativeFrom(as[i], step.index)]

RECURSIVE aggregate_pipeline_warnings(_)
aggregate_pipeline_warnings(steps) ==
    IF steps = <<>> THEN <<>>
    ELSE StepWarnings(Head(steps), MetaList(Head(steps), "warnings"))
         \o aggregate_pipeline_warnings(Tail(steps))

RECURSIVE aggregate_pipeline_sources(_)
aggregate_pipeline_sources(steps) ==
    IF steps = <<>> THEN <<>>
    ELSE StepSources(Head(steps), MetaList(Head(steps), "sources"))
         \o aggregate_pipeline_sources(Tail(steps))

RECURSIVE aggregate_pipeline_alternatives(_)
aggregate_pipeline_alternatives(steps) ==
    IF steps = <<>> THEN <<>>
    ELSE StepAlternatives(Head(steps), MetaList(Head(steps), "alternatives"))
         \o aggregate_pipeline_alternatives(Tail(steps))

\* step_defs.and_then(|defs| defs.get(s.index).and_then(|d| d.alias.clone()))
DeclaredAlias(step_defs, index) ==
    IF step_defs.some /\ index < Len(step_defs.v) THEN step_defs.v[index + 1].alias
    ELSE None

build_confidence_breakdown(steps, step_defs) ==
    LET kept == SuccessfulSteps(steps)
    IN [i \in 1..Len(kept) |->
           [step |-> kept[i].index,
            alias |-> IF kept[i].alias.some THEN kept[i].alias
                      ELSE DeclaredAlias(step_defs, kept[i].index),
            command |-> kept[i].command,
            confidence |-> ConfidenceOf(kept[i]),
            reasoning |-> IF kept[i].metadata.some THEN kept[i].metadata.v.reasoning
                          ELSE None]]

(***************************************************************************)
(* Pipeline execution.  The crate declares the request, step, option and   *)
(* result types and the helpers above; the loop that runs the steps is     *)
(* modelled from the specification (4.3 - 4.5): resolve the step's input,  *)
(* evaluate its when clause, dispatch through the registry, record the     *)
(* step, stop on a failure unless continue_on_failure is set.              *)
(***************************************************************************)
MaxSteps == 3

kUserId == <<"u", "s", "e", "r", "I", "d">>
aUser == <<"u">>

\* The declared steps of the model.
StepFetch == PipelineStep("a", Some(JObj(<<>>)), Some(aUser), None)
StepNotify ==
    PipelineStep("a", Some(JObj([k \in {kUserId} |-> JStr(rPrev \o <<".">> \o kId)])),
                 None, Some(Exists(rPrev \o <<".">> \o kEmail)))
StepAudit ==
    PipelineStep("b", Some(JStr(rInput)), None,
                 Some(Not(Eq(rSteps \o <<".">> \o aUser \o <<".">> \o kId, JNum(2)))))
PipelineSteps == {StepFetch, StepNotify, StepAudit}

PipelineOptionSets ==
    {None, Some(PipelineOptions(None)), Some(PipelineOptions(Some(FALSE))),
     Some(PipelineOptions(Some(TRUE)))}

PipelineRequests ==
    { create_pipeline(steps, options) :
        steps \in SeqsUpTo(PipelineSteps, MaxSteps) \ {<<>>},
        options \in PipelineOptionSets }

PipelineInputs == {Some(JObj([k \in {kId} |-> JNum(7)]))}

NoPipeline == create_pipeline(<<>>, None)

\* options.continue_on_failure, unset counting as false
ContinueOnFailure(options) ==
    IF options.some /\ options.v.continue_on_failure.some
    THEN options.v.continue_on_failure.v
    ELSE FALSE

\* Mutant: a failure never ends the run.
StopsPipeline_Never(result, options) == FALSE

\* Whether the run ends after a step with this result.
StopsPipeline(result, options) == (~result.success) /\ ~ContinueOnFailure(options)

\* Mutant: a step whose when clause is false is recorded as a failed step.
SkippedStep_AsFailure(index, step) ==
    StepResult(index, step.alias, step.command, "failure", None, None, 0, None)

\* The record of a step whose when clause is false.
SkippedStep(index, step) ==
    StepResult(index, step.alias, step.command, "skipped", None, None, 0, None)

\* The record of a dispatched step.
DispatchedStep(index, step, result, duration_ms) ==
    StepResult(index, step.alias, step.command,
               IF result.success THEN "success" ELSE "failure",
               result.data, result.error, duration_ms,
               IF result.success
               THEN Some(StepMetadata(result.confidence, result.reasoning,
                                      result.sources, result.warnings,
                                      result.alternatives))
               ELSE None)

\* The context after a step is recorded.
Recorded(context, step_result) ==
    PipelineContext(context.pipeline_input, Some(step_result),
                    Append(context.steps, step_result))

RECURSIVE SumStepTimes(_)
SumStepTimes(steps) ==
    IF steps = <<>> THEN 0
    ELSE Head(steps).execution_time_ms + SumStepTimes(Tail(steps))

\* The data of the last successful step, or null.
FinalData(steps) ==
    LET kept == SuccessfulSteps(steps)
    IN IF kept = <<>> THEN JNull ELSE UnwrapOrNull(kept[Len(kept)].data)

\* PipelineResult { data, metadata, steps }
BuildPipelineResult(steps, declared) ==
    [data |-> FinalData(steps),
     metadata |->
        [confidence |-> aggregate_pipeline_confidence(steps),
         confidence_breakdown |-> build_confidence_breakdown(steps, Some(declared)),
         reasoning |-> aggregate_pipeline_reasoning(steps),
         warnings |-> aggregate_pipeline_warnings(steps),
         sources |-> aggregate_pipeline_sources(steps),
         alternatives |-> aggregate_pipeline_alternatives(steps),
         execution_time_ms |-> SumStepTimes(steps),
         completed_steps |-> Len(SuccessfulSteps(steps)),
         total_steps |-> Len(declared),
         result_metadata |-> None],
     steps |-> steps]

PipeIdle ==
    /\ ppc = "idle"
    /\ pipeline = NoPipeline
    /\ pctx = DefaultPipelineContext
    /\ pcursor = 1
    /\ pstopped = FALSE
    /\ ppending = None
    /\ pdispatches = <<>>

\* A run starts: one run per behaviour, as a run keeps nothing between calls.
StartPipeline(req, input) ==
    /\ ppc = "idle" /\ bpc = "idle" /\ ret = None
    /\ ppc' = "loop"
    /\ pipeline' = req
    /\ pctx' = PipelineContext(input, None, <<>>)
    /\ pcursor' = 1
    /\ pstopped' = FALSE
    /\ ppending' = None
    /\ pdispatches' = <<>>
    /\ UNCHANGED <<appVars, regVars, batchVars, aggVars, evalVars>>

\* The next step's when clause is false: record it as skipped.
PipeSkip ==
    /\ ppc = "loop" /\ ~pstopped /\ pcursor <= Len(pipeline.steps)
    /\ LET step == pipeline.steps[pcursor] IN
        /\ step.when.some /\ ~evaluate_condition(step.when.v, pctx)
        /\ pctx' = Recorded(pctx, SkippedStep(pcursor - 1, step))
    /\ pcursor' = pcursor + 1
    /\ UNCHANGED <<appVars, regVars, batchVars, aggVars, evalVars, ppc, pipeline, pstopped, ppending,
                   pdispatches>>

\* The next step has no when clause, or a true one: resolve its input and
\* dispatch it through the registry.
PipeDispatch ==
    /\ ppc = "loop" /\ ~pstopped /\ pcursor <= Len(pipeline.steps)
    /\ LET step == pipeline.steps[pcursor] IN
        /\ step.when.some => evaluate_condition(step.when.v, pctx)
        /\ \E hr \in HandlerResults :
              LET input == resolve_variables(step.input.v, pctx)
                  out == ExecuteOutcome(commands, step.command, input, None, hr)
              IN /\ invocations' = invocations \o out.calls
                 /\ ppending' = Some(out.result)
                 /\ pdispatches' = Append(pdispatches,
                                          [index |-> pcursor - 1, name |-> step.command,
                                           input |-> input, returned |-> out.result])
    /\ ppc' = "await"
    /\ UNCHANGED <<appVars, commands, calls, ret, batchVars, aggVars, evalVars, pipeline, pctx, pcursor, pstopped>>

\* The awaited execute returns: record the step, end the run on a failure
\* unless continue_on_failure is set.
PipeRecord ==
    /\ ppc = "await"
    /\ \E d \in Durations :
          pctx' = Recorded(pctx, DispatchedStep(pcursor - 1, pipeline.steps[pcursor],
                                                ppending.v, d))
    /\ pstopped' = StopsPipeline(ppending.v, pipeline.options)
    /\ pcursor' = pcursor + 1
    /\ ppending' = None
    /\ ppc' = "loop"
    /\ UNCHANGED <<appVars, regVars, batchVars, aggVars, evalVars, pipeline, pdispatches>>

\* The run is over: build and return the PipelineResult.
PipeFinish ==
    /\ ppc = "loop" /\ (pstopped \/ pcursor > Len(pipeline.steps))
    /\ ret' = Some([op |-> "pipeline", request |-> pipeline,
                    input |-> pctx.pipeline_input,
                    result |-> BuildPipelineResult(pctx.steps, pipeline.steps)])
    /\ ppc' = "idle"
    /\ pipeline' = NoPipeline
    /\ pctx' = DefaultPipelineContext
    /\ pcursor' = 1
    /\ pstopped' = FALSE
    /\ ppending' = None
    /\ UNCHANGED <<appVars, commands, calls, invocations, batchVars, aggVars, evalVars, pdispatches>>

(***************************************************************************)
(* The aggregate functions, applied to any list of step results.           *)
(***************************************************************************)
MaxAggLen == 3

AggConfidences == {None, Some(50), Some(70), Some(90)}
AggMetadata ==
    {None} \cup {Some(StepMetadata(c, None, None, None, None)) : c \in AggConfidences}

\* Step results as an executor or a caller may build them: any status with
\* any metadata, the index being the position in the list.
AggStep(index, status, metadata) ==
    StepResult(index, None, "a", status,
               IF status = "success" THEN Some(JNull) ELSE None,
               IF status = "failure" THEN Some(HandlerError) ELSE None,
               0, metadata)

AggShapes == StepStatuses \X AggMetadata

AggLists ==
    { [i \in 1..Len(shape) |-> AggStep(i - 1, shape[i][1], shape[i][2])] :
        shape \in SeqsUpTo(AggShapes, MaxAggLen) }

AggIdle == aggSteps = <<>> /\ aggOut = None

Aggregate ==
    /\ aggOut = None
    /\ aggOut' = Some([confidence |-> aggregate_pipeline_confidence(aggSteps)])
    /\ UNCHANGED <<appVars, regVars, batchVars, pipeVars, evalVars, aggSteps>>

(***************************************************************************)
(* The registry and the batch executor.                                    *)
(***************************************************************************)
Init ==
    /\ AppIdle
    /\ commands = <<>>
    /\ invocations = <<>>
    /\ calls = {}
    /\ ret = None
    /\ bpc = "idle"
    /\ request = NoRequest
    /\ cursor = 1
    /\ results = <<>>
    /\ stopped = FALSE
    /\ pending = None
    /\ dispatches = <<>>
    /\ PipeIdle
    /\ AggIdle
    /\ EvalIdle

\* The direct calls of execute that another task makes while a call of
\* execute or execute_batch is suspended.
AsideCalls == {[name |-> n, input |-> JNum(3), context |-> None] : n \in Names}

\* A call of execute with any arguments when no call is suspended, and one
\* of AsideCalls beside a suspended call.
Next ==
    \/ \E d \in Defs : Register(d)
    \/ calls = {} /\ \E n \in Names, i \in Inputs, c \in Contexts : Execute(n, i, c)
    \/ calls # {} /\ \E a \in AsideCalls : Execute(a.name, a.input, a.context)
    \/ \E c \in calls : ExecuteReturn(c)

Spec == Init /\ [][Next]_vars

(***************************************************************************)
(* The batch executor, run on any registry that register calls can build.  *)
(***************************************************************************)
RECURSIVE RegisterAll(_)
RegisterAll(defs) ==
    IF defs = <<>> THEN <<>>
    ELSE RegisterOutcome(RegisterAll(SubSeq(defs, 1, Len(defs) - 1)),
                         defs[Len(defs)]).commands

\* The registries of the batch and pipeline runs: register called up to
\* twice with the first definition of "a".
Registries ==
    { RegisterAll(defs) : defs \in SeqsUpTo({CommandDefinition("a", "first", "h1")}, 2) }

InitBatch ==
    /\ AppIdle
    /\ commands \in Registries
    /\ invocations = <<>>
    /\ calls = {}
    /\ ret = None
    /\ bpc = "idle"
    /\ request = NoRequest
    /\ cursor = 1
    /\ results = <<>>
    /\ stopped = FALSE
    /\ pending = None
    /\ dispatches = <<>>
    /\ PipeIdle
    /\ AggIdle
    /\ EvalIdle

\* Another task calls execute once, while the batch is suspended in its
\* first command; the call returns at any later time, or never.
AsideOpen == bpc = "await" /\ Len(dispatches) = 1 /\ calls = {} /\ ret = None

NextBatch ==
    \/ \E req \in BatchRequests : StartBatch(req)
    \/ BatchSkip
    \/ BatchDispatch
    \/ BatchRecord
    \/ BatchFinish
    \/ AsideOpen /\ \E a \in AsideCalls : Execute(a.name, a.input, a.context)
    \/ \E c \in calls : ExecuteReturn(c)

SpecBatch == InitBatch /\ [][NextBatch]_vars

BatchIdle ==
    /\ bpc = "idle"
    /\ request = NoRequest
    /\ cursor = 1
    /\ results = <<>>
    /\ stopped = FALSE
    /\ pending = None
    /\ dispatches = <<>>

(***************************************************************************)
(* A pipeline run on any registry that register calls can build.           *)
(***************************************************************************)
InitPipe ==
    /\ AppIdle
    /\ commands \in Registries
    /\ invocations = <<>>
    /\ calls = {}
    /\ ret = None
    /\ BatchIdle
    /\ PipeIdle
    /\ AggIdle
    /\ EvalIdle

NextPipe ==
    \/ \E req \in PipelineRequests, input \in PipelineInputs : StartPipeline(req, input)
    \/ PipeSkip
    \/ PipeDispatch
    \/ PipeRecord
    \/ PipeFinish

SpecPipe == InitPipe /\ [][NextPipe]_vars

(***************************************************************************)
(* The aggregate functions on any list of step results.                    *)
(***************************************************************************)
InitAgg ==
    /\ AppIdle
    /\ commands = <<>>
    /\ invocations = <<>>
    /\ calls = {}
    /\ ret = None
    /\ BatchIdle
    /\ PipeIdle
    /\ aggSteps \in AggLists
    /\ aggOut = None
    /\ EvalIdle

NextAgg == Aggregate

SpecAgg == InitAgg /\ [][NextAgg]_vars

(***************************************************************************)
(* Calls of get_nested_value.  A caller writes a path as segments joined   *)
(* by "."; a segment is a name, or a name followed by [i].                 *)
(***************************************************************************)
MaxPathLen == 3

kUser == <<"u", "s", "e", "r">>
kProfile == <<"p", "r", "o", "f", "i", "l", "e">>
kItems == <<"i", "t", "e", "m", "s">>
sAlice == <<"A", "l">>

\* A document with nested objects and arrays.
NestedDoc ==
    JObj([k \in {kUser, kItems} |->
            IF k = kUser
            THEN JObj([k2 \in {kProfile} |->
                         JObj([k3 \in {kItems} |->
                                  JArr(<<JNum(1),
                                         JObj([k4 \in {kUser} |-> JStr(sAlice)])>>)])])
            ELSE JArr(<<JNum(2), JObj([k2 \in {kProfile} |-> JNull])>>)])

NestedDocs == {NestedDoc, JArr(<<JNum(1), JNum(2)>>)}

SegmentNames == {kUser, kProfile, kItems, <<>>}
SegmentIndexes == {None, Some(1), Some(12)}
Segments == [name : SegmentNames, index : SegmentIndexes]

DigitChar(d) ==
    CASE d = 0 -> "0" [] d = 1 -> "1" [] d = 2 -> "2" [] d = 3 -> "3" [] d = 4 -> "4"
      [] d = 5 -> "5" [] d = 6 -> "6" [] d = 7 -> "7" [] d = 8 -> "8" [] d = 9 -> "9"

\* usize::to_string
RECURSIVE FormatUsize(_)
FormatUsize(n) ==
    IF n < 10 THEN <<DigitChar(n)>> ELSE FormatUsize(n \div 10) \o <<DigitChar(n % 10)>>

\* "name" or "name[i]"
FormatSegment(seg) ==
    IF seg.index.some THEN seg.name \o <<"[">> \o FormatUsize(seg.index.v) \o <<"]">>
    ELSE seg.name

\* The segments joined by "."
RECURSIVE FormatPath(_)
FormatPath(segments) ==
    IF Len(segments) = 1 THEN FormatSegment(segments[1])
    ELSE FormatPath(SubSeq(segments, 1, Len(segments) - 1)) \o <<".">>
         \o FormatSegment(segments[Len(segments)])

NestedCalls ==
    { [fn |-> "get_nested_value", obj |-> obj, path |-> FormatPath(segments),
       segments |-> segments] :
        obj \in NestedDocs, segments \in SeqsUpTo(Segments, MaxPathLen) \ {<<>>} }

kAccent == <<"é">>
kItemsArabic == kItems \o <<"[", ArabicIndicThree, "]">>

\* A document with a key outside ASCII and a key that reads like an index
\* written with a digit outside ASCII.
UnicodeDoc ==
    JObj([k \in {kAccent, kItems, kItemsArabic} |->
            IF k = kAccent THEN JArr(<<JNum(5), JNum(6)>>)
            ELSE IF k = kItems THEN JArr(<<JNum(1), JNum(2), JNum(3), JNum(4)>>)
            ELSE JNum(9)])

\* Paths over names outside ASCII, written as segments.
UnicodeCalls ==
    { [fn |-> "get_nested_value", obj |-> UnicodeDoc, path |-> FormatPath(segments),
       segments |-> segments] :
        segments \in { <<[name |-> kAccent, index |-> i]>> : i \in {None, Some(0), Some(2)} } }

\* Paths whose index is written with a digit that is no ASCII digit, with
\* the segments the caller means by them: items[3], e[13] and items.items[3].
IndexTextCalls ==
    { [fn |-> "get_nested_value", obj |-> UnicodeDoc, path |-> c.path,
       segments |-> c.segments] :
        c \in { [path |-> kItemsArabic,
                 segments |-> <<[name |-> kItems, index |-> Some(3)]>>],
                [path |-> kAccent \o <<"[", "1", ArabicIndicThree, "]">>,
                 segments |-> <<[name |-> kAccent, index |-> Some(13)]>>],
                [path |-> kItems \o <<".">> \o kItemsArabic,
                 segments |-> <<[name |-> kItems, index |-> None],
                                [name |-> kItems, index |-> Some(3)]>>] } }

kMyItems == <<"m", "y", "-", "i", "t", "e", "m", "s">>

kMyItemsTwo == kMyItems \o <<"[", "2", "]">>

\* A document with a key that holds a character outside the class \w, and
\* a key spelled like a segment over it.
HyphenDoc ==
    JObj([k \in {kMyItems, kMyItemsTwo} |->
            IF k = kMyItems THEN JArr(<<JNum(7), JNum(8)>>) ELSE JNum(9)])

\* Paths over that key: my-items, my-items[0] and my-items[2].
HyphenCalls ==
    { [fn |-> "get_nested_value", obj |-> HyphenDoc, path |-> FormatPath(segments),
       segments |-> segments] :
        segments \in { <<[name |-> kMyItems, index |-> i]>> : i \in {None, Some(0), Some(2)} } }

EvalGetNestedValue ==
    /\ evalIn.fn = "get_nested_value" /\ evalOut = None
    /\ evalOut' = Some(get_nested_value(evalIn.obj, evalIn.path))
    /\ UNCHANGED <<appVars, regVars, batchVars, pipeVars, aggVars, evalIn>>

InitNested ==
    /\ AppIdle
    /\ commands = <<>>
    /\ invocations = <<>>
    /\ calls = {}
    /\ ret = None
    /\ BatchIdle
    /\ PipeIdle
    /\ AggIdle
    /\ evalIn \in NestedCalls \cup UnicodeCalls \cup IndexTextCalls \cup HyphenCalls
    /\ evalOut = None

NextNested == EvalGetNestedValue

SpecNested == InitNested /\ [][NextNested]_vars

(***************************************************************************)
(* Calls of resolve_variable and resolve_variables.  A caller writes a     *)
(* reference as a root ($prev, $first, $input, $steps[n], $steps.alias)    *)
(* followed by "." and a path, or writes a string that is no reference.    *)
(***************************************************************************)
MaxCtxSteps == 2

aOther == <<"v">>
aNone == <<"x">>

\* A user whose email is null.
UserNullEmail == JObj([k \in {kId, kEmail} |-> IF k = kId THEN JNum(2) ELSE JNull])

\* Step results by alias, status and data; a step that did not succeed
\* carries no data.
StepShapes ==
    { [alias |-> Some(aUser), status |-> "success", data |-> Some(UserWithEmail)],
      [alias |-> None, status |-> "success", data |-> Some(UserNullEmail)],
      [alias |-> Some(aUser), status |-> "skipped", data |-> None],
      [alias |-> Some(aOther), status |-> "failure", data |-> None] }

ShapedStep(index, shape) ==
    StepResult(index, shape.alias, "a", shape.status, shape.data,
               IF shape.status = "failure" THEN Some(HandlerError) ELSE None, 0, None)

StepLists ==
    { [i \in 1..Len(shapes) |-> ShapedStep(i - 1, shapes[i])] :
        shapes \in SeqsUpTo(StepShapes, MaxCtxSteps) }

\* Any context a caller can build: the previous result need not be in steps.
ResolveContexts ==
    { PipelineContext(input, previous, steps) :
        input \in {None} \cup PipelineInputs,
        previous \in {None} \cup {Some(ShapedStep(0, shape)) : shape \in StepShapes},
        steps \in StepLists }

ReferenceRoots ==
    {[kind |-> "prev"], [kind |-> "first"], [kind |-> "input"], [kind |-> "other"]}
    \cup {[kind |-> "index", n |-> n] : n \in {0, 1, 2, 10}}
    \cup {[kind |-> "indextext", digits |-> <<ArabicIndicThree>>]}
    \cup {[kind |-> "alias", alias |-> a] : a \in {aUser, aOther, aNone}}

ReferencePaths ==
    { <<>>, <<[name |-> kId, index |-> None]>>, <<[name |-> kEmail, index |-> None]>>,
      <<[name |-> kId, index |-> None], [name |-> kEmail, index |-> None]>> }

\* The text of a root.
RootText(root) ==
    CASE root.kind = "prev" -> rPrev
      [] root.kind = "first" -> rFirst
      [] root.kind = "input" -> rInput
      [] root.kind = "other" -> <<"$", "n", "o">>
      [] root.kind = "index" -> rSteps \o <<"[">> \o FormatUsize(root.n) \o <<"]">>
      [] root.kind = "indextext" -> rSteps \o <<"[">> \o root.digits \o <<"]">>
      [] root.kind = "alias" -> rSteps \o <<".">> \o root.alias

\* The text of a reference: the root, then "." and the path if there is one.
ReferenceText(root, segments) ==
    IF segments = <<>> THEN RootText(root)
    ELSE RootText(root) \o <<".">> \o FormatPath(segments)

References ==
    { [text |-> ReferenceText(root, segments), root |-> root, segments |-> segments] :
        root \in ReferenceRoots, segments \in ReferencePaths }
    \cup { [text |-> t, root |-> [kind |-> "literal"], segments |-> <<>>] :
             t \in {kId, <<>>} }

ResolveCalls ==
    { [fn |-> "resolve_variable", reference |-> r, context |-> c] :
        r \in References, c \in ResolveContexts }

EvalResolveVariable ==
    /\ evalIn.fn = "resolve_variable" /\ evalOut = None
    /\ evalOut' = Some(resolve_variable(evalIn.reference.text, evalIn.context))
    /\ UNCHANGED <<appVars, regVars, batchVars, pipeVars, aggVars, evalIn>>

sActive == <<"o", "k">>
kStatus == <<"s", "t">>

\* Step inputs: references and plain values as leaves of objects and arrays.
StepInputs ==
    { JObj([k \in {kUserId, kStatus} |->
              IF k = kUserId THEN JStr(rPrev \o <<".">> \o kId) ELSE JStr(sActive)]),
      JArr(<<JStr(rFirst \o <<".">> \o kEmail), JNum(3), JBool(TRUE), JNull,
             JArr(<<JStr(rSteps \o <<".">> \o aUser), JStr(kId)>>)>>),
      JObj([k \in {kId} |->
              JObj([j \in {kUserId} |-> JArr(<<JStr(rSteps \o <<"[", "1", "]">>)>>)])]),
      JStr(rInput),
      JStr(<<"$", "n", "o">>),
      JStr(sActive),
      JNum(5),
      JArr(<<>>) }

ResolveAllCalls ==
    { [fn |-> "resolve_variables", input |-> i, context |-> c] :
        i \in StepInputs, c \in ResolveContexts }

EvalResolveVariables ==
    /\ evalIn.fn = "resolve_variables" /\ evalOut = None
    /\ evalOut' = Some(resolve_variables(evalIn.input, evalIn.context))
    /\ UNCHANGED <<appVars, regVars, batchVars, pipeVars, aggVars, evalIn>>

InitResolve ==
    /\ AppIdle
    /\ commands = <<>>
    /\ invocations = <<>>
    /\ calls = {}
    /\ ret = None
    /\ BatchIdle
    /\ PipeIdle
    /\ AggIdle
    /\ evalIn \in ResolveCalls \cup ResolveAllCalls
    /\ evalOut = None

NextResolve == EvalResolveVariable \/ EvalResolveVariables

SpecResolve == InitResolve /\ [][NextResolve]_vars

(***************************************************************************)
(* Calls of evaluate_condition.                                            *)
(***************************************************************************)
MaxCondSteps == 1
MaxConds == 2

\* A user whose id is a boolean and whose email is an array.
MistypedUser ==
    JObj([k \in {kId, kEmail} |-> IF k = kId THEN JBool(TRUE) ELSE JArr(<<JNum(1)>>)])

CondShapes ==
    { [alias |-> None, status |-> "success", data |-> Some(UserWithEmail)],
      [alias |-> None, status |-> "success", data |-> Some(UserNullEmail)],
      [alias |-> None, status |-> "success", data |-> Some(MistypedUser)],
      [alias |-> None, status |-> "skipped", data |-> None] }

CondContexts ==
    { PipelineContext(input, previous,
                      [i \in 1..Len(shapes) |-> ShapedStep(i - 1, shapes[i])]) :
        input \in {None} \cup PipelineInputs,
        previous \in {None} \cup {Some(ShapedStep(0, shape)) : shape \in CondShapes},
        shapes \in SeqsUpTo(CondShapes, MaxCondSteps) }

CondReferences ==
    { [text |-> ReferenceText(root, segments), root |-> root, segments |-> segments] :
        root \in {[kind |-> "prev"], [kind |-> "first"], [kind |-> "input"],
                  [kind |-> "other"]},
        segments \in {<<>>, <<[name |-> kId, index |-> None]>>,
                      <<[name |-> kEmail, index |-> None]>>} }
    \cup {[text |-> kId, root |-> [kind |-> "literal"], segments |-> <<>>]}

\* Ids are 1, 2 and 7: below, at and above the threshold.
Thresholds == {2}

\* Conditions on one reference.
ReferenceConditions(r) ==
    {Exists(r)} \cup {Gt(r, t) : t \in Thresholds} \cup {Gte(r, t) : t \in Thresholds}
    \cup {Lt(r, t) : t \in Thresholds} \cup {Lte(r, t) : t \in Thresholds}

\* The conditions that are combined.
Atoms == {Exists(rPrev \o <<".">> \o kEmail), Lte(rFirst \o <<".">> \o kId, 1)}

Combined == {And(l) : l \in SeqsUpTo(Atoms, MaxConds)} \cup {Or(l) : l \in SeqsUpTo(Atoms, MaxConds)}

ConditionTrees ==
    Combined
    \cup {Not(c) : c \in Atoms \cup Combined}
    \cup {And(<<Not(c), a>>) : c \in Combined, a \in Atoms}

ConditionCalls ==
    UNION { { [fn |-> "evaluate_condition", condition |-> c, context |-> ctx,
               reference |-> r] :
                c \in ReferenceConditions(r.text), ctx \in CondContexts } :
            r \in CondReferences }
    \cup { [fn |-> "evaluate_condition", condition |-> c, context |-> ctx] :
             c \in ConditionTrees, ctx \in CondContexts }

EvalEvaluateCondition ==
    /\ evalIn.fn = "evaluate_condition" /\ evalOut = None
    /\ evalOut' = Some(evaluate_condition(evalIn.condition, evalIn.context))
    /\ UNCHANGED <<appVars, regVars, batchVars, pipeVars, aggVars, evalIn>>

InitCond ==
    /\ AppIdle
    /\ commands = <<>>
    /\ invocations = <<>>
    /\ calls = {}
    /\ ret = None
    /\ BatchIdle
    /\ PipeIdle
    /\ AggIdle
    /\ evalIn \in ConditionCalls
    /\ evalOut = None

NextCond == EvalEvaluateCondition

SpecCond == InitCond /\ [][NextCond]_vars

(***************************************************************************)
(* batch.rs: create_batch_result.  A confidence c is the integer 100 * c;  *)
(* the f64 quotient of a sum by a count is kept as the pair of the two.    *)
(***************************************************************************)
Quotient(sum, count) == [sum |-> sum, count |-> count]

\* The filter_map: the confidences of the successful results that have one.
RECURSIVE SuccessConfidences(_)
SuccessConfidences(rs) ==
    IF rs = <<>> THEN <<>>
    ELSE (IF rs[1].result.success /\ rs[1].result.confidence.some
          THEN <<rs[1].result.confidence.v>> ELSE <<>>)
         \o SuccessConfidences(Tail(rs))

RECURSIVE SumOf(_)
SumOf(ns) == IF ns = <<>> THEN 0 ELSE ns[1] + SumOf(Tail(ns))

AverageOf(confidences) ==
    IF confidences = <<>> THEN None
    ELSE Some(Quotient(SumOf(confidences), Len(confidences)))

BatchResultOf(rs, total, succeeded, failed, started_at, ended_at, total_ms) ==
    [success |-> failed = 0, results |-> rs,
     summary |-> [total |-> total, succeeded |-> succeeded, failed |-> failed,
                  skipped |-> 0,
                  average_confidence |-> AverageOf(SuccessConfidences(rs))],
     timing |-> [started_at |-> started_at, ended_at |-> Some(ended_at),
                 total_ms |-> Some(total_ms),
                 average_ms |-> IF total > 0 THEN Some(total_ms \div total) ELSE None],
     error |-> None]

create_batch_result(rs, started_at, ended_at, total_ms) ==
    BatchResultOf(rs, Len(rs), CountSucceeded(rs), Len(rs) - CountSucceeded(rs),
                  started_at, ended_at, total_ms)

(***************************************************************************)
(* Batch results built by execute_batch and by create_batch_result.        *)
(***************************************************************************)
MaxItems == 3
MaxSummaryCmds == 2

\* BatchCommandResult::success(id, command, result): no duration.
ItemResults ==
    { BatchCommandResult("1", "a", r, None) : r \in HandlerResults }
    \cup { BatchCommandResult("2", "b", success_with(UserWithEmail, ConfidenceOnly(Some(100))), Some(4)),
           SkippedResult(BatchCommand("3", "a", JObj(<<>>))) }

CreateCalls ==
    { [fn |-> "create_batch_result", results |-> rs,
       started_at |-> "2025-01-01T00:00:00Z", ended_at |-> "2025-01-01T00:00:01Z",
       total_ms |-> 1000] :
        rs \in SeqsUpTo(ItemResults, MaxItems) }

EvalCreateBatchResult ==
    /\ evalIn.fn = "create_batch_result" /\ evalOut = None
    /\ evalOut' = Some(create_batch_result(evalIn.results, evalIn.started_at,
                                           evalIn.ended_at, evalIn.total_ms))
    /\ UNCHANGED <<appVars, regVars, batchVars, pipeVars, aggVars, evalIn>>

SummaryRequests ==
    { BatchRequest(cmds, BatchOptions(coe, None)) :
        cmds \in SeqsUpTo(BatchCommands, MaxSummaryCmds), coe \in BOOLEAN }

\* Either a call of create_batch_result, or a registry on which
\* execute_batch is called.
InitSummary ==
    /\ AppIdle
    /\ invocations = <<>>
    /\ calls = {}
    /\ ret = None
    /\ BatchIdle
    /\ PipeIdle
    /\ AggIdle
    /\ evalOut = None
    /\ \/ commands = <<>> /\ evalIn \in CreateCalls
       \/ commands \in Registries /\ evalIn = NoCall

NextSummary ==
    \/ EvalCreateBatchResult
    \/ evalIn = NoCall /\ \E req \in SummaryRequests : StartBatch(req)
    \/ BatchSkip
    \/ BatchDispatch
    \/ BatchRecord
    \/ BatchFinish

SpecSummary == InitSummary /\ [][NextSummary]_vars

(***************************************************************************)
(* The results the core produces: the constructors of result.rs, the       *)
(* result of registry.execute and the results of execute_batch.            *)
(***************************************************************************)
\* A Warning, and the FailureOptions a caller passes.
SlowWarning ==
    [code |-> "SLOW", message |-> "took long", severity |-> None, context |-> None]
\* The ResultOptions a caller passes, those of test_success_with_options
\* among them.
ResultOptionSets ==
    { DefaultResultOptions,
      ConfidenceOnly(Some(80)),
      [DefaultResultOptions EXCEPT !.confidence = Some(95),
                                   !.reasoning = Some("Test reasoning")],
      [DefaultResultOptions EXCEPT !.confidence = Some(80),
                                   !.warnings = Some(<<SlowWarning>>)] }
FailureOptionSets ==
    { [warnings |-> None, metadata |-> None],
      [warnings |-> Some(<<SlowWarning>>), metadata |-> None] }

ResultCalls ==
    { [fn |-> "success", data |-> d] : d \in {UserWithEmail, JNull} }
    \cup { [fn |-> "success_with", data |-> d, options |-> o] :
             d \in {UserWithEmail, JNull}, o \in ResultOptionSets }
    \cup { [fn |-> "failure", error |-> HandlerError] }
    \cup { [fn |-> "failure_with", error |-> HandlerError, options |-> o] :
             o \in FailureOptionSets }
    \cup { [fn |-> "default"] }

ResultOf(call) ==
    CASE call.fn = "success" -> success(call.data)
      [] call.fn = "success_with" -> success_with(call.data, call.options)
      [] call.fn = "failure" -> failure(call.error)
      [] call.fn = "failure_with" -> failure_with(call.error, call.options)
      [] call.fn = "default" -> DefaultResult

EvalResult ==
    /\ evalIn \in ResultCalls /\ evalOut = None
    /\ evalOut' = Some(ResultOf(evalIn))
    /\ UNCHANGED <<appVars, regVars, batchVars, pipeVars, aggVars, evalIn>>

InitResult ==
    /\ AppIdle
    /\ invocations = <<>>
    /\ calls = {}
    /\ ret = None
    /\ BatchIdle
    /\ PipeIdle
    /\ AggIdle
    /\ evalOut = None
    /\ \/ commands = <<>> /\ evalIn \in ResultCalls
       \/ commands \in Registries /\ evalIn = NoCall

NextResult ==
    \/ EvalResult
    \/ evalIn = NoCall /\ ret = None /\ calls = {}
         /\ \E n \in Names, i \in Inputs, c \in Contexts : Execute(n, i, c)
    \/ \E c \in calls : ExecuteReturn(c)
    \/ evalIn = NoCall /\ \E req \in SummaryRequests : StartBatch(req)
    \/ BatchSkip
    \/ BatchDispatch
    \/ BatchRecord
    \/ BatchFinish

SpecResult == InitResult /\ [][NextResult]_vars

(***************************************************************************)
(* Calls of the aggregate functions on step results that carry metadata.   *)
(***************************************************************************)
MaxFoldLen == 2

\* Warning, Source and Alternative values (metadata.rs).
WarnDeprecated ==
    [code |-> "DEPRECATION", message |-> "This is deprecated", severity |-> None,
     context |-> None]
WarnSlow == [code |-> "SLOW", message |-> "took long", severity |-> None, context |-> None]
SourceDocs ==
    [name |-> "docs", source_type |-> "document", url |-> Some("https://d"),
     accessed_at |-> None, relevance |-> None, snippet |-> None]
AltOther == [data |-> JNum(2), reason |-> "slower", confidence |-> Some(40)]

FoldMetadata ==
    { None,
      Some(StepMetadata(Some(50), Some("because"), Some(<<SourceDocs>>),
                        Some(<<WarnDeprecated, WarnSlow>>), Some(<<AltOther>>))),
      Some(StepMetadata(None, None, None, Some(<<WarnSlow>>), Some(<<>>))) }

FoldShapes ==
    { [status |-> "success", alias |-> None], [status |-> "success", alias |-> Some(aUser)],
      [status |-> "failure", alias |-> Some(aUser)], [status |-> "skipped", alias |-> None] }
    \X FoldMetadata

\* Step results as a caller may build them, the index being the position
\* in the list.
FoldStep(index, shape, metadata) ==
    StepResult(index, shape.alias, "a", shape.status,
               IF shape.status = "success" THEN Some(JNull) ELSE None,
               IF shape.status = "failure" THEN Some(HandlerError) ELSE None,
               0, metadata)

FoldLists ==
    { [i \in 1..Len(shapes) |-> FoldStep(i - 1, shapes[i][1], shapes[i][2])] :
        shapes \in SeqsUpTo(FoldShapes, MaxFoldLen) }

FoldFunctions == {"reasoning", "warnings", "sources", "alternatives"}

FoldCalls ==
    { [fn |-> f, steps |-> steps] : f \in FoldFunctions, steps \in FoldLists }
    \cup { [fn |-> "breakdown", steps |-> steps, step_defs |-> d] :
             steps \in FoldLists, d \in {None, Some(<<StepNotify>>)} }

EvalAggregateReasoning ==
    /\ evalIn.fn = "reasoning" /\ evalOut = None
    /\ evalOut' = Some(aggregate_pipeline_reasoning(evalIn.steps))
    /\ UNCHANGED <<appVars, regVars, batchVars, pipeVars, aggVars, evalIn>>

EvalAggregateWarnings ==
    /\ evalIn.fn = "warnings" /\ evalOut = None
    /\ evalOut' = Some(aggregate_pipeline_warnings(evalIn.steps))
    /\ UNCHANGED <<appVars, regVars, batchVars, pipeVars, aggVars, evalIn>>

EvalAggregateSources ==
    /\ evalIn.fn = "sources" /\ evalOut = None
    /\ evalOut' = Some(aggregate_pipeline_sources(evalIn.steps))
    /\ UNCHANGED <<appVars, regVars, batchVars, pipeVars, aggVars, evalIn>>

EvalAggregateAlternatives ==
    /\ evalIn.fn = "alternatives" /\ evalOut = None
    /\ evalOut' = Some(aggregate_pipeline_alternatives(evalIn.steps))
    /\ UNCHANGED <<appVars, regVars, batchVars, pipeVars, aggVars, evalIn>>

EvalBuildConfidenceBreakdown ==
    /\ evalIn.fn = "breakdown" /\ evalOut = None
    /\ evalOut' = Some(build_confidence_breakdown(evalIn.steps, evalIn.step_defs))
    /\ UNCHANGED <<appVars, regVars, batchVars, pipeVars, aggVars, evalIn>>

InitFold ==
    /\ AppIdle
    /\ commands = <<>>
    /\ invocations = <<>>
    /\ calls = {}
    /\ ret = None
    /\ BatchIdle
    /\ PipeIdle
    /\ AggIdle
    /\ evalIn \in FoldCalls
    /\ evalOut = None

NextFold ==
    \/ EvalAggregateReasoning
    \/ EvalAggregateWarnings
    \/ EvalAggregateSources
    \/ EvalAggregateAlternatives
    \/ EvalBuildConfidenceBreakdown

SpecFold == InitFold /\ [][NextFold]_vars

(***************************************************************************)
(* Calls of resolve_variables in contexts whose data hold strings that     *)
(* begin with $.                                                           *)
(***************************************************************************)
MaxEchoSteps == 1

\* Step outputs and pipeline inputs that are or contain a $ string.
EchoData ==
    { JStr(rInput),
      JObj([k \in {kId} |-> JStr(rPrev \o <<".">> \o kId)]),
      JArr(<<JStr(rFirst), JNum(1)>>),
      UserWithEmail }

EchoStep(index, data) == StepResult(index, None, "a", "success", Some(data), None, 0, None)

EchoContexts ==
    { PipelineContext(input, previous, steps) :
        input \in {None, Some(JStr(rPrev)), Some(JObj([k \in {kId} |-> JNum(7)]))},
        previous \in {None} \cup {Some(EchoStep(0, d)) : d \in EchoData},
        steps \in { [i \in 1..Len(ds) |-> EchoStep(i - 1, ds[i])] :
                      ds \in SeqsUpTo(EchoData, MaxEchoSteps) } }

EchoInputs ==
    { JStr(rPrev), JStr(rInput), JStr(rFirst), JStr(rPrev \o <<".">> \o kId),
      JArr(<<JStr(rPrev), JStr(rInput)>>),
      JObj([k \in {kUserId, kStatus} |-> IF k = kUserId THEN JStr(rFirst) ELSE JStr(sActive)]),
      JStr(sActive) }

EchoCalls ==
    { [fn |-> "resolve_variables", input |-> i, context |-> c] :
        i \in EchoInputs, c \in EchoContexts }

InitEcho ==
    /\ AppIdle
    /\ commands = <<>>
    /\ invocations = <<>>
    /\ calls = {}
    /\ ret = None
    /\ BatchIdle
    /\ PipeIdle
    /\ AggIdle
    /\ evalIn \in EchoCalls
    /\ evalOut = None

NextEcho == EvalResolveVariables

SpecEcho == InitEcho /\ [][NextEcho]_vars

(***************************************************************************)
(* The todo backend: the store (store.rs) and the stats handler            *)
(* (commands/stats.rs).  A Todo is modelled by its id, priority, completed *)
(* and completed_at; title, description, created_at and updated_at are     *)
(* written but never read by the operations below and are left out.        *)
(***************************************************************************)
MaxTodos == 2
MaxNow == 1

TodoIds == 1..MaxTodos
Priorities == {"low", "medium", "high"}

Todo(id, priority, completed, completed_at) ==
    [id |-> id, priority |-> priority, completed |-> completed,
     completed_at |-> completed_at]

\* impl Default for Priority
PriorityDefault == "medium"

\* STORE.remove(id)
Removed(store, id) == [i \in (DOMAIN store) \ {id} |-> store[i]]

\* store::create, with the id Uuid::new_v4 gave and the reading t of Utc::now()
create(store, id, priority, t) ==
    LET todo == Todo(id, IF priority.some THEN priority.v ELSE PriorityDefault, FALSE, None)
    IN [store |-> (id :> todo) @@ store, result |-> todo]

\* Mutant: completed_at is stamped whenever completed is set to true.
CompletedAtAfterUpdate_Restamp(todo, completed, t) ==
    IF completed THEN Some(t) ELSE None

\* The completed_at that update leaves for if let Some(completed) = completed.
CompletedAtAfterUpdate(todo, completed, t) ==
    IF completed /\ ~todo.completed THEN Some(t)
    ELSE IF ~completed THEN None
    ELSE todo.completed_at

\* store::update, for the fields of the model
update(store, id, priority, completed, t) ==
    IF id \in DOMAIN store
    THEN LET todo == Todo(id,
                          IF priority.some THEN priority.v ELSE store[id].priority,
                          IF completed.some THEN completed.v ELSE store[id].completed,
                          IF completed.some
                          THEN CompletedAtAfterUpdate(store[id], completed.v, t)
                          ELSE store[id].completed_at)
         IN [store |-> [store EXCEPT ![id] = todo], result |-> Some(todo)]
    ELSE [store |-> store, result |-> None]

\* store::delete
delete(store, id) == [store |-> Removed(store, id), result |-> id \in DOMAIN store]

\* store::toggle
toggle(store, id, t) ==
    IF id \in DOMAIN store
    THEN LET new_status == ~store[id].completed
             todo == Todo(id, store[id].priority, new_status,
                          IF new_status THEN Some(t) ELSE None)
         IN [store |-> [store EXCEPT ![id] = todo], result |-> Some(todo)]
    ELSE [store |-> store, result |-> None]

\* store::clear on one shard of the map: DashMap::clear is retain(|_, _| false),
\* which write-locks one shard after the other and empties it.  The ids
\* stand for the shards, in the order the map takes them.
clear(store, shard) == Removed(store, shard)

TodoReturn(op, args, result) ==
    Some([op |-> op, args |-> args, at |-> now, result |-> result])

\* create, update, delete and toggle work on one entry under the DashMap's
\* lock for the entry's shard, so each is one step, whatever else runs with
\* it.  clear takes the shards' locks one after the other and is one step
\* per shard.
Create(id, priority) ==
    /\ id \notin DOMAIN STORE
    /\ STORE' = create(STORE, id, priority, now).store
    /\ todoRet' = TodoReturn("create", [priority |-> priority],
                             create(STORE, id, priority, now).result)
    /\ UNCHANGED <<regVars, batchVars, pipeVars, aggVars, evalVars, deskVars, now, stats,
                   clearing>>

Update(id, priority, completed) ==
    /\ STORE' = update(STORE, id, priority, completed, now).store
    /\ todoRet' = TodoReturn("update", [id |-> id, priority |-> priority,
                                        completed |-> completed],
                             update(STORE, id, priority, completed, now).result)
    /\ UNCHANGED <<regVars, batchVars, pipeVars, aggVars, evalVars, deskVars, now, stats,
                   clearing>>

Delete(id) ==
    /\ STORE' = delete(STORE, id).store
    /\ todoRet' = TodoReturn("delete", [id |-> id], delete(STORE, id).result)
    /\ UNCHANGED <<regVars, batchVars, pipeVars, aggVars, evalVars, deskVars, now, stats,
                   clearing>>

Toggle(id) ==
    /\ STORE' = toggle(STORE, id, now).store
    /\ todoRet' = TodoReturn("toggle", [id |-> id], toggle(STORE, id, now).result)
    /\ UNCHANGED <<regVars, batchVars, pipeVars, aggVars, evalVars, deskVars, now, stats,
                   clearing>>

\* ClearHandler::execute enters store::clear: STORE.clear() empties the
\* first shard and releases its lock.
Clear ==
    /\ clearing = None
    /\ STORE' = clear(STORE, 1)
    /\ clearing' = Some(1)
    /\ UNCHANGED <<regVars, batchVars, pipeVars, aggVars, evalVars, deskVars, now, stats,
                   todoRet>>

\* STORE.clear() empties the next shard and releases its lock; after the
\* last shard the handler returns success.
ClearShard ==
    /\ clearing.some
    /\ STORE' = clear(STORE, clearing.v + 1)
    /\ IF clearing.v + 1 < MaxTodos
       THEN clearing' = Some(clearing.v + 1) /\ todoRet' = todoRet
       ELSE clearing' = None /\ todoRet' = TodoReturn("clear", <<>>, TRUE)
    /\ UNCHANGED <<regVars, batchVars, pipeVars, aggVars, evalVars, deskVars, now, stats>>

\* Time passes between two readings of Utc::now().
Tick ==
    /\ now < MaxNow
    /\ now' = now + 1
    /\ UNCHANGED <<regVars, batchVars, pipeVars, aggVars, evalVars, deskVars, STORE, stats,
                   todoRet, clearing>>

\* The fields an update call sets: priority, completed, or both.
UpdateFields ==
    {[priority |-> Some("low"), completed |-> None],
     [priority |-> None, completed |-> Some(TRUE)],
     [priority |-> None, completed |-> Some(FALSE)],
     [priority |-> Some("low"), completed |-> Some(TRUE)]}

\* The calls a client may make at any time.
StoreCall ==
    \/ \E id \in TodoIds, priority \in {None, Some("high")} : Create(id, priority)
    \/ \E id \in TodoIds, fields \in UpdateFields :
          Update(id, fields.priority, fields.completed)
    \/ \E id \in TodoIds : Delete(id)
    \/ \E id \in TodoIds : Toggle(id)
    \/ Clear
    \/ ClearShard

InitTodo ==
    /\ AppIdle
    /\ commands = <<>>
    /\ invocations = <<>>
    /\ calls = {}
    /\ ret = None
    /\ BatchIdle
    /\ PipeIdle
    /\ AggIdle
    /\ EvalIdle

NextTodo == StoreCall \/ Tick

SpecTodo == InitTodo /\ [][NextTodo]_vars

(***************************************************************************)
(* StatsHandler::execute (commands/stats.rs), run while other calls work   *)
(* on the store: axum serves each connection on its own task of the        *)
(* multi-threaded runtime, and the handler takes no lock of its own.       *)
(***************************************************************************)
\* total - completed on usize.  wraps says that completed exceeds total, in
\* which case a release build yields 2^64 - n, a number beyond the integers
\* of the model, and a debug build panics.
WrappingSub(a, b) == [wraps |-> a < b, n |-> IF a >= b THEN a - b ELSE b - a]

TodoStats(total, completed, low, medium, high) ==
    [total |-> total, completed |-> completed, pending |-> WrappingSub(total, completed),
     by_priority |-> [low |-> low, medium |-> medium, high |-> high],
     completion_rate |-> IF total > 0 THEN Quotient(completed, total) ELSE Quotient(0, 1)]

\* The entries of one shard: DashMap::len is the sum of the shards' lengths,
\* each read under the shard's own lock.
ShardLen(store, shard) == IF shard \in DOMAIN store THEN 1 ELSE 0

\* let total = STORE.len() adds the length of the next shard; after the last
\* shard the counters are set to 0 and the for loop begins.
StatsLen ==
    /\ stats.pc \in {"idle", "len"}
    /\ stats' = IF stats.cursor + 1 < MaxTodos
                THEN [stats EXCEPT !.pc = "len", !.cursor = @ + 1,
                                   !.total = @ + ShardLen(STORE, stats.cursor + 1)]
                ELSE [NoStats EXCEPT !.pc = "iter",
                                     !.total = stats.total
                                               + ShardLen(STORE, stats.cursor + 1)]
    /\ UNCHANGED <<regVars, batchVars, pipeVars, aggVars, evalVars, deskVars, STORE, now,
                   todoRet, clearing>>

\* The body of the for loop on the entry r.
Counted(s, t) ==
    [s EXCEPT !.completed = IF t.completed THEN @ + 1 ELSE @,
              !.low = IF t.priority = "low" THEN @ + 1 ELSE @,
              !.medium = IF t.priority = "medium" THEN @ + 1 ELSE @,
              !.high = IF t.priority = "high" THEN @ + 1 ELSE @]

\* STORE.iter() moves on: it locks one shard at a time and yields what the
\* shard holds at that moment.  The ids stand for the shards, in the order
\* the iterator takes them.
StatsVisit ==
    /\ stats.pc = "iter"
    /\ stats.cursor < MaxTodos
    /\ stats' = IF (stats.cursor + 1) \in DOMAIN STORE
                THEN [Counted(stats, STORE[stats.cursor + 1]) EXCEPT !.cursor = @ + 1]
                ELSE [stats EXCEPT !.cursor = @ + 1]
    /\ UNCHANGED <<regVars, batchVars, pipeVars, aggVars, evalVars, deskVars, STORE, now,
                   todoRet, clearing>>

\* What the handler comes to: the stats, or None for the panic of a build
\* with overflow checks when total - completed underflows.
StatsOutcomes(s) ==
    {Some(success(TodoStats(s.total, s.completed, s.low, s.medium, s.high)))}
    \cup (IF s.completed > s.total THEN {None} ELSE {})

\* The iterator is exhausted: build TodoStats and return.
StatsReturn ==
    /\ stats.pc = "iter"
    /\ stats.cursor = MaxTodos
    /\ \E outcome \in StatsOutcomes(stats) : todoRet' = TodoReturn("stats", <<>>, outcome)
    /\ stats' = NoStats
    /\ UNCHANGED <<regVars, batchVars, pipeVars, aggVars, evalVars, deskVars, STORE, now,
                   clearing>>

NextStats == StoreCall \/ StatsLen \/ StatsVisit \/ StatsReturn

SpecStats == InitTodo /\ [][NextStats]_vars

(***************************************************************************)
(* The desktop application (src-tauri/src/main.rs): the supervisor of the  *)
(* todo-server sidecar.  Processes are numbered in the order of spawning.  *)
(***************************************************************************)
MaxSpawns == 3

DeskReply(cmd, ok, value) ==
    Some([cmd |-> cmd, ok |-> ok, value |-> value, running |-> alive # {}])

\* The builder's setup hook has run and did not fail.
AppRunning == reply.some /\ ~(reply.v.cmd = "setup" /\ ~reply.v.ok)

\* What a caller of start_backend answers: the setup hook passes the result
\* on, start_server maps it to its own strings.
StartReply(cmd, ok) ==
    DeskReply(cmd, ok, IF cmd = "setup" THEN "setup"
                       ELSE IF ok THEN "Server started" ELSE "spawn error")

\* start_backend up to spawn()?, called by cmd: the sidecar is spawned and
\* the caller holds its CommandChild, no lock being taken yet; or the spawn
\* fails and the caller returns the error.  spawn_ok is whether
\* sidecar(..)?.spawn()? succeeded.
start_backend(cmd, spawn_ok) ==
    IF spawn_ok
    THEN /\ spawned < MaxSpawns
         /\ spawned' = spawned + 1
         /\ alive' = alive \cup {spawned + 1}
         /\ starting' = starting \cup {[cmd |-> cmd, child |-> spawned + 1]}
         /\ UNCHANGED <<child, reply>>
    ELSE /\ reply' = StartReply(cmd, FALSE)
         /\ UNCHANGED <<spawned, alive, child, starting>>

\* start_backend from state.child.lock() on: the child is stored in
\* SidecarState in place of whatever was held, and the caller returns Ok; a
\* CommandChild that is dropped leaves its process running.
StoreChild(s) ==
    /\ s \in starting
    /\ starting' = starting \ {s}
    /\ child' = Some(s.child)
    /\ reply' = StartReply(s.cmd, TRUE)
    /\ UNCHANGED <<regVars, batchVars, pipeVars, aggVars, evalVars, todoVars, spawned, alive>>

\* .setup(|app| { start_backend(&handle)?; Ok(()) }): the hook runs once,
\* before any command can be invoked.
Setup ==
    /\ reply = None
    /\ starting = {}
    /\ \E spawn_ok \in BOOLEAN : start_backend("setup", spawn_ok)
    /\ UNCHANGED <<regVars, batchVars, pipeVars, aggVars, evalVars, todoVars>>

\* #[tauri::command] async fn start_server: the commands run on the threads
\* of the async runtime, several at a time.
StartServer ==
    /\ AppRunning
    /\ \E spawn_ok \in BOOLEAN : start_backend("start_server", spawn_ok)
    /\ UNCHANGED <<regVars, batchVars, pipeVars, aggVars, evalVars, todoVars>>

\* #[tauri::command] stop_server: guard.take() and child.kill(); kill_ok is
\* whether kill returned Ok.
StopServer ==
    /\ AppRunning
    /\ IF child.some
       THEN /\ child' = None
            /\ \E kill_ok \in BOOLEAN :
                  /\ alive' = IF kill_ok THEN alive \ {child.v} ELSE alive
                  /\ reply' = DeskReply("stop_server", kill_ok,
                                        IF kill_ok THEN "Server stopped" ELSE "kill error")
       ELSE /\ reply' = DeskReply("stop_server", FALSE, "No server running")
            /\ UNCHANGED <<child, alive>>
    /\ UNCHANGED <<regVars, batchVars, pipeVars, aggVars, evalVars, todoVars, spawned,
                   starting>>

\* #[tauri::command] get_server_status: Ok(guard.is_some())
GetServerStatus ==
    /\ AppRunning
    /\ reply' = DeskReply("get_server_status", TRUE, child.some)
    /\ UNCHANGED <<regVars, batchVars, pipeVars, aggVars, evalVars, todoVars, child, alive,
                   spawned, starting>>

\* on_window_event, WindowEvent::CloseRequested: take the child and kill it,
\* the result of kill being dropped.
CloseRequested ==
    /\ AppRunning
    /\ child' = None
    /\ \E kill_ok \in BOOLEAN :
          alive' = IF child.some /\ kill_ok THEN alive \ {child.v} ELSE alive
    /\ reply' = DeskReply("close_requested", TRUE, "closed")
    /\ UNCHANGED <<regVars, batchVars, pipeVars, aggVars, evalVars, todoVars, spawned,
                   starting>>

\* A sidecar ends by itself (CommandEvent::Terminated), as the todo server
\* does when it cannot bind port 3100.
SidecarTerminated ==
    /\ \E p \in alive : alive' = alive \ {p}
    /\ UNCHANGED <<regVars, batchVars, pipeVars, aggVars, evalVars, todoVars, child, spawned,
                   starting, reply>>

InitDesk == InitTodo

NextDesk ==
    \/ Setup
    \/ StartServer
    \/ \E s \in starting : StoreChild(s)
    \/ StopServer
    \/ GetServerStatus
    \/ CloseRequested
    \/ SidecarTerminated

SpecDesk == InitDesk /\ [][NextDesk]_vars

(***************************************************************************)
(* Properties of the registry and the batch executor.                      *)
(***************************************************************************)
IsBatchReturn == ret.some /\ ret.v.op = "execute_batch"
IsExecuteReturn == ret.some /\ ret.v.op = "execute"

\* The handler invocations made by the running or returned execute_batch
\* itself, apart from those of the direct calls that ran beside it.
OwnInvocations == InvocationsOf(0)
IsRegisterReturn == ret.some /\ ret.v.op = "register"

\* The request and the results of the execute_batch call, running or returned.
CurRequest == IF bpc # "idle" THEN request
              ELSE IF IsBatchReturn THEN ret.v.request ELSE NoRequest
CurResults == IF bpc # "idle" THEN results
              ELSE IF IsBatchReturn THEN ret.v.result.results ELSE <<>>

ErrorCode(result) == IF result.error.some THEN result.error.v.code ELSE "(none)"
IsSkipped(r) == ErrorCode(r.result) = "COMMAND_SKIPPED"

\* k is the first item of rs whose result is a failure.
FirstFailure(rs, k) ==
    /\ k \in 1..Len(rs)
    /\ ~rs[k].result.success
    /\ \A j \in 1..(k - 1) : rs[j].result.success

\* C1: a returned batch has one result per command; with
\* continue_on_error=false every item after the first failure is a failure
\* with code COMMAND_SKIPPED, its own id and command, and duration 0.
C1_SkippedAfterFirstFailure ==
    (IsBatchReturn /\ ret.v.request.commands # <<>>) =>
        LET req == ret.v.request
            rs == ret.v.result.results
        IN /\ Len(rs) = Len(req.commands)
           /\ (~req.options.continue_on_error) =>
                \A k \in 1..Len(rs) : FirstFailure(rs, k) =>
                    \A j \in (k + 1)..Len(rs) :
                        /\ ~rs[j].result.success
                        /\ ~rs[j].result.data.some
                        /\ ErrorCode(rs[j].result) = "COMMAND_SKIPPED"
                        /\ rs[j].id = req.commands[j].id
                        /\ rs[j].command = req.commands[j].command
                        /\ rs[j].duration_ms = Some(0)

\* A success, then a handler failure, then a placeholder.
C1_Witness ==
    /\ IsBatchReturn
    /\ ~ret.v.request.options.continue_on_error
    /\ Len(ret.v.result.results) = 3
    /\ ret.v.result.results[1].result.success
    /\ ErrorCode(ret.v.result.results[2].result) = "RATE_LIMITED"
    /\ IsSkipped(ret.v.result.results[3])
    /\ ret.v.result.results[2].duration_ms = Some(4)

\* C2: the k-th self.execute call is for item k of the request (request
\* order, each item at most once); a call is made only when every earlier
\* result is recorded; a dispatched item whose command is registered has
\* exactly one handler invocation, retryable error or not; results[i]
\* carries the id and command of commands[i] and, for a dispatched item,
\* exactly what its dispatch returned.
C2_SequentialExactlyOnce ==
    (bpc # "idle" \/ IsBatchReturn) =>
        LET req == CurRequest
            rs == CurResults
            n == Len(dispatches)
        IN /\ n <= Len(req.commands)
           /\ \A k \in 1..n :
                /\ dispatches[k].name = req.commands[k].command
                /\ dispatches[k].input = req.commands[k].input
           /\ IF bpc = "await" THEN n = Len(rs) + 1 ELSE n <= Len(rs)
           /\ Len(OwnInvocations)
                = Cardinality({k \in 1..n : dispatches[k].name \in DOMAIN commands})
           /\ \A i \in 1..Len(rs) :
                /\ rs[i].id = req.commands[i].id
                /\ rs[i].command = req.commands[i].command
                /\ (i <= n) => rs[i].result = dispatches[i].returned

\* Three dispatched commands, two of them registered, the first failing
\* with retryable=true, while a direct call of execute entered the same
\* handler between the two and is still suspended.
C2_Witness ==
    /\ IsBatchReturn
    /\ Len(dispatches) = 3
    /\ Len(OwnInvocations) = 2
    /\ Len(invocations) = 3
    /\ invocations[2].call # 0
    /\ calls # {}
    /\ dispatches[1].returned = failure(HandlerError)
    /\ ret.v.result.results[1].result = failure(HandlerError)
    /\ ret.v.result.results[2].result.success
    /\ ret.v.result.results[1].id # ret.v.result.results[3].id

\* C3: with continue_on_error=true a returned batch has dispatched every
\* item, and no result carries COMMAND_SKIPPED.
C3_ContinueOnErrorAttemptsAll ==
    (IsBatchReturn /\ ret.v.request.commands # <<>>
                   /\ ret.v.request.options.continue_on_error) =>
        /\ Len(dispatches) = Len(ret.v.request.commands)
        /\ \A i \in 1..Len(ret.v.result.results) : ~IsSkipped(ret.v.result.results[i])

\* Two failures, one of them an unregistered name, and a later success.
C3_Witness ==
    /\ IsBatchReturn
    /\ ret.v.request.options.continue_on_error
    /\ Len(ret.v.result.results) = 3
    /\ ErrorCode(ret.v.result.results[1].result) = "RATE_LIMITED"
    /\ ErrorCode(ret.v.result.results[2].result) = "COMMAND_NOT_FOUND"
    /\ ret.v.result.results[3].result.success

\* C4: no step changes or removes the definition a name is registered
\* under; a register call for a registered name returns an error and
\* leaves the registry as it was, and a register call for a fresh name
\* returns Ok and adds exactly that definition.
C4_RegisterNeverOverwrites ==
    [][ /\ \A n \in DOMAIN commands :
              n \in DOMAIN commands' /\ commands'[n] = commands[n]
        /\ (ret' # ret /\ ret'.some /\ ret'.v.op = "register") =>
              LET d == ret'.v.command IN
              IF d.name \in DOMAIN commands
              THEN /\ ~ret'.v.result.ok
                   /\ commands' = commands
              ELSE /\ ret'.v.result.ok
                   /\ DOMAIN commands' = DOMAIN commands \cup {d.name}
                   /\ commands'[d.name] = d
      ]_vars

\* A second definition named "a" was refused; get("a") is still the first.
C4_Witness ==
    /\ IsRegisterReturn
    /\ ret.v.command = CommandDefinition("a", "second", "h2")
    /\ ~ret.v.result.ok
    /\ get("a") = Some(CommandDefinition("a", "first", "h1"))

\* C5: execute of an unregistered name returns a failure without data whose
\* error has code COMMAND_NOT_FOUND, a suggestion and retryable=false, and
\* invokes no handler.
C5_NotFound ==
    (IsExecuteReturn /\ ~has(ret.v.name)) =>
        /\ ~ret.v.result.success
        /\ ret.v.result.data = None
        /\ ret.v.result.error.some
        /\ ret.v.result.error.v.code = "COMMAND_NOT_FOUND"
        /\ ret.v.result.error.v.suggestion.some
        /\ ret.v.result.error.v.retryable = Some(FALSE)
        /\ InvocationsOf(ret.v.call) = <<>>

\* A miss on a registry that holds another command, whose handler is
\* running for another call.
C5_Witness ==
    /\ IsExecuteReturn
    /\ calls # {}
    /\ ret.v.name = "b"
    /\ has("a")
    /\ ~has("b")

\* C6: execute of a registered name invokes that command's handler exactly
\* once, with the given input and the supplied context (the default one when
\* none is supplied), and returns what the handler returned.
C6_ExecuteReturnsHandlerResult ==
    (IsExecuteReturn /\ has(ret.v.name)) =>
        /\ Len(InvocationsOf(ret.v.call)) = 1
        /\ InvocationsOf(ret.v.call)[1].handler = commands[ret.v.name].handler
        /\ InvocationsOf(ret.v.call)[1].input = ret.v.input
        /\ InvocationsOf(ret.v.call)[1].context =
              (IF ret.v.context.some THEN ret.v.context.v ELSE DefaultContext)
        /\ ret.v.result = InvocationsOf(ret.v.call)[1].returned

\* A handler failure returned as is, on a call that supplied no context and
\* that entered its handler after, and left it before, a call still suspended.
C6_Witness ==
    /\ IsExecuteReturn
    /\ has(ret.v.name)
    /\ ret.v.context = None
    /\ ret.v.result = failure(HandlerError)
    /\ InvocationsOf(ret.v.call)[1].context = DefaultContext
    /\ Len(invocations) = 2
    /\ invocations[1].call # ret.v.call
    /\ calls # {}

\* C7: execute_batch on an empty request returns success=false, an
\* INVALID_BATCH_REQUEST error, no results and an all-zero summary, and
\* dispatches nothing.
C7_EmptyBatch ==
    (IsBatchReturn /\ ret.v.request.commands = <<>>) =>
        /\ ~ret.v.result.success
        /\ ret.v.result.error.some
        /\ ret.v.result.error.v.code = "INVALID_BATCH_REQUEST"
        /\ ret.v.result.results = <<>>
        /\ ret.v.result.summary = BatchSummaryNew(0, 0, 0, 0)
        /\ dispatches = <<>>
        /\ OwnInvocations = <<>>

\* An empty request with continue_on_error set, on a non-empty registry.
C7_Witness ==
    /\ IsBatchReturn
    /\ ret.v.request.commands = <<>>
    /\ ret.v.request.options.continue_on_error
    /\ has("a")

(***************************************************************************)
(* Properties of pipeline execution and of the aggregate functions.        *)
(***************************************************************************)
IsPipelineReturn == ret.some /\ ret.v.op = "pipeline"

\* A pipeline run is in progress or has returned.
PipeActive == ppc # "idle" \/ IsPipelineReturn

\* The request, the pipeline input and the step results of that run.
CurPipeline == IF ppc # "idle" THEN pipeline ELSE ret.v.request
CurPipeInput == IF ppc # "idle" THEN pctx.pipeline_input ELSE ret.v.input
CurSteps == IF ppc # "idle" THEN pctx.steps ELSE ret.v.result.steps

\* continue_on_failure is unset or false.
HaltsOnFailure(req) ==
    \/ req.options = None
    \/ req.options.v.continue_on_failure = None
    \/ req.options.v.continue_on_failure = Some(FALSE)

StatusOf(result) == IF result.success THEN "success" ELSE "failure"

\* C8: with continue_on_failure unset or false, a failed step is the last
\* entry of the step list and no step after it is ever dispatched; the step
\* list holds, in declaration order, one entry per step up to and including
\* the failing one, each dispatched step with the result the registry
\* returned for it, and the returned result holds every dispatched step.
C8_StopsAtFirstFailure ==
    (PipeActive /\ HaltsOnFailure(CurPipeline)) =>
        LET steps == CurSteps
            declared == CurPipeline.steps
        IN /\ Len(steps) <= Len(declared)
           /\ \A i \in 1..Len(steps) :
                /\ steps[i].index = i - 1
                /\ steps[i].command = declared[i].command
                /\ steps[i].status = "failure" =>
                      /\ i = Len(steps)
                      /\ \A j \in 1..Len(pdispatches) : pdispatches[j].index < i
           /\ \A j \in 1..Len(pdispatches) :
                LET at == pdispatches[j].index + 1
                IN /\ IsPipelineReturn => at <= Len(steps)
                   /\ at <= Len(steps) =>
                         /\ steps[at].status = StatusOf(pdispatches[j].returned)
                         /\ steps[at].data = pdispatches[j].returned.data
                         /\ steps[at].error = pdispatches[j].returned.error

\* A run that returned after its second of three steps failed.
C8_Witness ==
    /\ IsPipelineReturn
    /\ HaltsOnFailure(ret.v.request)
    /\ Len(ret.v.request.steps) = 3
    /\ Len(ret.v.result.steps) = 2
    /\ ret.v.result.steps[1].status = "success"
    /\ ret.v.result.steps[2].status = "failure"

\* The context a step at position i was decided in.
ContextBefore(input, steps, i) ==
    PipelineContext(input, IF i = 1 THEN None ELSE Some(steps[i - 1]),
                    SubSeq(steps, 1, i - 1))

\* The step result has no data with an email field.
LacksEmail(step_result) ==
    \/ ~step_result.data.some
    \/ step_result.data.v.t # "obj"
    \/ kEmail \notin DOMAIN step_result.data.v.o

IsSkippedStep(step_result) ==
    /\ step_result.status = "skipped"
    /\ step_result.data = None
    /\ step_result.error = None

whenExistsPrevEmail == Some(Exists(<<"$", "p", "r", "e", "v", ".", "e", "m", "a", "i", "l">>))

\* C9: a step whose when clause is false in the context it is decided in is
\* never dispatched and is recorded with status skipped, no data and no
\* error; so is a step with when {"$exists": "$prev.email"} that follows a
\* step whose data has no email field; the returned total_steps is the
\* number of declared steps, and completed_steps counts the successful
\* steps only, so a skipped step is in the first and not in the second.
C9_FalseWhenIsSkipped ==
    PipeActive =>
        LET steps == CurSteps
            declared == CurPipeline.steps
        IN /\ \A i \in 1..Len(steps) :
                (\/ /\ declared[i].when.some
                    /\ ~evaluate_condition(declared[i].when.v,
                                           ContextBefore(CurPipeInput, steps, i))
                 \/ /\ declared[i].when = whenExistsPrevEmail
                    /\ i > 1
                    /\ LacksEmail(steps[i - 1]))
                =>
                (/\ IsSkippedStep(steps[i])
                 /\ \A j \in 1..Len(pdispatches) : pdispatches[j].index # i - 1)
           /\ IsPipelineReturn =>
                /\ ret.v.result.metadata.total_steps = Len(declared)
                /\ ret.v.result.metadata.completed_steps =
                      Cardinality({i \in 1..Len(steps) : steps[i].status = "success"})

\* A returned run whose second step was gated on $prev.email after a
\* successful step whose data has no email field.
C9_Witness ==
    /\ IsPipelineReturn
    /\ Len(ret.v.result.steps) = 3
    /\ ret.v.request.steps[2].when = whenExistsPrevEmail
    /\ ret.v.result.steps[1].status = "success"
    /\ ret.v.result.steps[1].data = Some(UserNoEmail)
    /\ ret.v.result.steps[2].status = "skipped"
    /\ ret.v.result.steps[3].status = "success"
    /\ ret.v.result.metadata.total_steps = 3
    /\ ret.v.result.metadata.completed_steps = 2

\* The confidence a successful step counts with: its own, or 1.0.
CountedConfidence(step_result) ==
    IF step_result.metadata.some /\ step_result.metadata.v.confidence.some
    THEN step_result.metadata.v.confidence.v
    ELSE 100

\* C10: aggregate_pipeline_confidence returns the least confidence among the
\* steps with status success, a successful step without a confidence
\* counting as 1.0 and failed and skipped steps not counting at all, and 0
\* if no step is successful.
C10_MinimumOverSuccessful ==
    aggOut.some =>
        LET successful == {i \in 1..Len(aggSteps) : aggSteps[i].status = "success"}
            out == aggOut.v.confidence
        IN IF successful = {} THEN out = 0
           ELSE /\ \E i \in successful : out = CountedConfidence(aggSteps[i])
                /\ \A i \in successful : out <= CountedConfidence(aggSteps[i])

\* Successful steps with confidences 0.9 and 0.7 and a failed step that
\* carries 0.5: the result is 0.7.
C10_Witness ==
    /\ aggOut = Some([confidence |-> 70])
    /\ Len(aggSteps) = 3
    /\ aggSteps[1].status = "success" /\ CountedConfidence(aggSteps[1]) = 90
    /\ aggSteps[2].status = "success" /\ CountedConfidence(aggSteps[2]) = 70
    /\ aggSteps[3].status = "failure" /\ CountedConfidence(aggSteps[3]) = 50

(***************************************************************************)
(* Properties of the pipeline helpers.                                     *)
(***************************************************************************)
\* What a segment selects in a value: the member called name, and for
\* name[i] element i of that member; nothing if the value is not an object,
\* has no such member, or the member is not an array with an element i.
SegmentOf(current, seg) ==
    IF current.t # "obj" THEN None
    ELSE IF seg.name \notin DOMAIN current.o THEN None
    ELSE IF ~seg.index.some THEN Some(current.o[seg.name])
    ELSE IF current.o[seg.name].t # "arr" THEN None
    ELSE IF seg.index.v >= Len(current.o[seg.name].a) THEN None
    ELSE Some(current.o[seg.name].a[seg.index.v + 1])

\* What a list of segments selects, one segment at a time.
RECURSIVE SegmentsOf(_, _)
SegmentsOf(current, segments) ==
    IF segments = <<>> THEN Some(current)
    ELSE IF SegmentOf(current, Head(segments)).some
    THEN SegmentsOf(SegmentOf(current, Head(segments)).v, Tail(segments))
    ELSE None

NestedReturned == evalIn.fn = "get_nested_value" /\ evalOut.some

\* The name of every segment name[i] is one or more word characters.
WordName(seg) == seg.index.some => (seg.name # <<>> /\ AllIn(seg.name, WordChars))
WordNames(segments) == \A i \in 1..Len(segments) : WordName(segments[i])

\* No digit of the path is a digit outside ASCII.
AsciiIndexes(path) == \A i \in 1..Len(path) : path[i] \notin UnicodeDigits

\* A segment name[i] whose name is not made of word characters, taken as
\* the key that is spelled name[i].
AsKey(seg) == IF WordName(seg) THEN seg ELSE [name |-> FormatSegment(seg), index |-> None]
AsKeys(segments) == [i \in 1..Len(segments) |-> AsKey(segments[i])]

\* The parts of a path, each taken as a key.
PlainKeys(path) ==
    [i \in 1..Len(SplitOn(path, ".")) |-> [name |-> SplitOn(path, ".")[i], index |-> None]]

\* C15: get_nested_value on a path of segments joined by ".", where the
\* name of every segment name[i] is one or more word characters and i is
\* written in ASCII digits, returns the value those segments select one
\* after the other, and absent as soon as a segment names a missing key, an
\* index out of range, or is applied to something that is not an object.  A
\* segment name[i] whose name holds another character is looked up as the
\* key spelled name[i], and a path with an index written in other digits
\* returns absent.
C15_NestedLookup ==
    NestedReturned =>
        /\ (WordNames(evalIn.segments) /\ AsciiIndexes(evalIn.path)) =>
               evalOut.v = SegmentsOf(evalIn.obj, evalIn.segments)
        /\ AsciiIndexes(evalIn.path) =>
               evalOut.v = SegmentsOf(evalIn.obj, AsKeys(evalIn.segments))
        /\ (WordNames(evalIn.segments) /\ ~AsciiIndexes(evalIn.path)) =>
               evalOut.v = None

\* C15 as stated: whatever the characters of a segment name[i], the call
\* returns what the segments select (element i of the array property name),
\* or, for an index written in digits outside ASCII, what the parts select
\* as keys.
C15_AsStated ==
    NestedReturned =>
        \/ evalOut.v = SegmentsOf(evalIn.obj, evalIn.segments)
        \/ /\ ~AsciiIndexes(evalIn.path)
           /\ evalOut.v = SegmentsOf(evalIn.obj, PlainKeys(evalIn.path))

\* user.profile.items[1] reaches the object inside the array.
C15_Witness ==
    /\ evalIn.fn = "get_nested_value"
    /\ evalIn.obj = NestedDoc
    /\ evalIn.path = kUser \o <<".">> \o kProfile \o <<".">> \o kItems \o <<"[", "1", "]">>
    /\ evalOut = Some(Some(JObj([k \in {kUser} |-> JStr(sAlice)])))

\* What a path selects in optional data: nothing when there is no data.
PathValue(data, segments) ==
    IF data.some THEN SegmentsOf(data.v, segments) ELSE None

IsResolved(kind) ==
    evalIn.fn = "resolve_variable" /\ evalIn.reference.root.kind = kind /\ evalOut.some

\* C12: $prev resolves to the data of the previous result and $prev.<path>
\* to the value at that path inside it; the result is absent when there is
\* no previous result, when it carries no data, or when the path names a
\* missing field.
C12_PrevReference ==
    IsResolved("prev") =>
        evalOut.v =
            IF evalIn.context.previous_result.some
            THEN PathValue(evalIn.context.previous_result.v.data, evalIn.reference.segments)
            ELSE None

\* $prev.id gives the id of the previous result while the recorded steps
\* hold a different step.
C12_Witness ==
    /\ evalIn.fn = "resolve_variable"
    /\ evalIn.reference.text = rPrev \o <<".">> \o kId
    /\ evalIn.context.previous_result.some
    /\ evalIn.context.previous_result.v.data = Some(UserWithEmail)
    /\ Len(evalIn.context.steps) = 1
    /\ evalIn.context.steps[1].data = Some(UserNullEmail)
    /\ evalOut = Some(Some(JNum(1)))

\* The steps of a context that carry the alias, whatever their status.
Aliased(steps, alias) == {i \in 1..Len(steps) : steps[i].alias = Some(alias)}

\* C13: $steps.<alias> resolves against the recorded step that carries the
\* alias, whether it succeeded, failed or was skipped (the first such step
\* if several carry it): its data, or the value at the path inside its
\* data, absent when that step has no data; an alias no step carries gives
\* absent.
C13_AliasReference ==
    IsResolved("alias") =>
        evalOut.v =
            IF Aliased(evalIn.context.steps, evalIn.reference.root.alias) = {} THEN None
            ELSE PathValue(
                   evalIn.context.steps[
                       CHOOSE i \in Aliased(evalIn.context.steps, evalIn.reference.root.alias) :
                           \A j \in Aliased(evalIn.context.steps, evalIn.reference.root.alias) :
                               i <= j].data,
                   evalIn.reference.segments)

\* The alias belongs to a skipped step recorded before a successful step
\* with the same alias: the reference is absent.
C13_Witness ==
    /\ evalIn.fn = "resolve_variable"
    /\ evalIn.reference.text = rSteps \o <<".">> \o aUser \o <<".">> \o kId
    /\ Len(evalIn.context.steps) = 2
    /\ evalIn.context.steps[1].status = "skipped"
    /\ evalIn.context.steps[1].alias = Some(aUser)
    /\ evalIn.context.steps[2].status = "success"
    /\ evalIn.context.steps[2].alias = Some(aUser)
    /\ evalOut = Some(None)

\* C14: $steps[n] counts the recorded steps from zero: it resolves to the
\* data of step n, or to the value at the path inside it, and is absent
\* when n is not less than the number of recorded steps; $steps[0] and
\* $first resolve to the same value for every context and path.
C14_IndexReference ==
    IsResolved("index") =>
        /\ evalOut.v =
             IF evalIn.reference.root.n < Len(evalIn.context.steps)
             THEN PathValue(evalIn.context.steps[evalIn.reference.root.n + 1].data,
                            evalIn.reference.segments)
             ELSE None
        /\ evalIn.reference.root.n = 0 =>
             evalOut.v = resolve_variable(
                             ReferenceText([kind |-> "first"], evalIn.reference.segments),
                             evalIn.context)

\* $steps[1].email reads the second of two steps.
C14_Witness ==
    /\ evalIn.fn = "resolve_variable"
    /\ evalIn.reference.text = rSteps \o <<"[", "1", "]", ".">> \o kEmail
    /\ Len(evalIn.context.steps) = 2
    /\ evalIn.context.steps[1].data = Some(UserNullEmail)
    /\ evalIn.context.steps[2].data = Some(UserWithEmail)
    /\ evalOut = Some(Some(JStr(sMail)))

\* The output is the input with every reference leaf replaced: arrays keep
\* their length, objects their keys, and every other leaf its value.
RECURSIVE Substituted(_, _, _)
Substituted(input, output, context) ==
    IF input.t = "str"
    THEN IF input.s # <<>> /\ Head(input.s) = "$"
         THEN IF resolve_variable(input.s, context).some
              THEN output = resolve_variable(input.s, context).v
              ELSE output = JNull
         ELSE output = input
    ELSE IF input.t = "arr"
    THEN /\ output.t = "arr"
         /\ Len(output.a) = Len(input.a)
         /\ \A i \in 1..Len(input.a) : Substituted(input.a[i], output.a[i], context)
    ELSE IF input.t = "obj"
    THEN /\ output.t = "obj"
         /\ DOMAIN output.o = DOMAIN input.o
         /\ \A k \in DOMAIN input.o : Substituted(input.o[k], output.o[k], context)
    ELSE output = input

\* C11: resolve_variables returns a tree of the same shape as its input in
\* which every string leaf that starts with $ is replaced by what
\* resolve_variable gives for it, or by null when that is absent, and every
\* other leaf is unchanged; it returns a value for every input.
C11_ResolveVariables ==
    (evalIn.fn = "resolve_variables" /\ evalOut.some) =>
        Substituted(evalIn.input, evalOut.v, evalIn.context)

\* A reference nested in an array of an array resolves to the data of the
\* aliased step, the first reference becomes null and the number stays.
C11_Witness ==
    /\ evalIn.fn = "resolve_variables"
    /\ evalIn.input.t = "arr"
    /\ Len(evalIn.input.a) = 5
    /\ evalOut.some
    /\ evalOut.v.t = "arr"
    /\ evalOut.v.a[1] = JNull
    /\ evalOut.v.a[2] = JNum(3)
    /\ evalOut.v.a[5] = JArr(<<UserWithEmail, JStr(kId)>>)

\* What a reference written as root and path stands for in a context.
RootValue(root, context) ==
    CASE root.kind = "prev" ->
           IF context.previous_result.some THEN context.previous_result.v.data ELSE None
      [] root.kind = "first" ->
           IF context.steps # <<>> THEN context.steps[1].data ELSE None
      [] root.kind = "input" -> context.pipeline_input
      [] root.kind = "other" -> None

ReferenceValue(reference, context) ==
    IF reference.root.kind = "literal" THEN Some(JStr(reference.text))
    ELSE PathValue(RootValue(reference.root, context), reference.segments)

IsEvaluated(kinds) ==
    evalIn.fn = "evaluate_condition" /\ evalIn.condition.c \in kinds /\ evalOut.some

\* C16: $exists on r is true exactly when r, read as a variable reference,
\* resolves to a value that is present and is not null; a string without $
\* stands for itself and so exists.
C16_Exists ==
    IsEvaluated({"exists"}) =>
        evalOut.v = (/\ ReferenceValue(evalIn.reference, evalIn.context).some
                     /\ ReferenceValue(evalIn.reference, evalIn.context).v # JNull)

\* $exists on $prev.email is false when the previous data holds a null email.
C16_Witness ==
    /\ evalIn.fn = "evaluate_condition"
    /\ evalIn.condition = Exists(rPrev \o <<".">> \o kEmail)
    /\ evalIn.context.previous_result.some
    /\ evalIn.context.previous_result.v.data = Some(UserNullEmail)
    /\ evalOut = Some(FALSE)

Compare(c, n, threshold) ==
    CASE c = "gt" -> n > threshold
      [] c = "gte" -> n >= threshold
      [] c = "lt" -> n < threshold
      [] c = "lte" -> n <= threshold

\* C17: $gt, $gte, $lt and $lte compare the number the reference resolves
\* to with the threshold, and are false when the reference does not
\* resolve or resolves to something that is not a number.
C17_NumericConditions ==
    IsEvaluated({"gt", "gte", "lt", "lte"}) =>
        evalOut.v =
            IF /\ ReferenceValue(evalIn.reference, evalIn.context).some
               /\ ReferenceValue(evalIn.reference, evalIn.context).v.t = "num"
            THEN Compare(evalIn.condition.c,
                         ReferenceValue(evalIn.reference, evalIn.context).v.n,
                         evalIn.condition.threshold)
            ELSE FALSE

\* $lte on an email that is a string is false, as $gt on it is.
C17_Witness ==
    /\ evalIn.fn = "evaluate_condition"
    /\ evalIn.condition = Lte(rPrev \o <<".">> \o kEmail, 2)
    /\ evalIn.context.previous_result.some
    /\ evalIn.context.previous_result.v.data = Some(UserWithEmail)
    /\ ~evaluate_condition(Gt(rPrev \o <<".">> \o kEmail, 2), evalIn.context)
    /\ evalOut = Some(FALSE)

Reversed(s) == [i \in 1..Len(s) |-> s[Len(s) + 1 - i]]

\* C18: $and is true exactly when every sub-condition is (so for none),
\* $or exactly when some sub-condition is (so not for none), $not exactly
\* when its sub-condition is not; the sub-conditions in the opposite order
\* give the same result.
C18_LogicalConditions ==
    /\ IsEvaluated({"and"}) =>
         /\ evalOut.v = \A i \in 1..Len(evalIn.condition.conditions) :
                            evaluate_condition(evalIn.condition.conditions[i], evalIn.context)
         /\ evalOut.v = evaluate_condition(And(Reversed(evalIn.condition.conditions)),
                                           evalIn.context)
    /\ IsEvaluated({"or"}) =>
         /\ evalOut.v = \E i \in 1..Len(evalIn.condition.conditions) :
                            evaluate_condition(evalIn.condition.conditions[i], evalIn.context)
         /\ evalOut.v = evaluate_condition(Or(Reversed(evalIn.condition.conditions)),
                                           evalIn.context)
    /\ IsEvaluated({"not"}) =>
         evalOut.v = ~evaluate_condition(evalIn.condition.inner, evalIn.context)

\* An $or whose first sub-condition is false and whose second is true.
C18_Witness ==
    /\ evalIn.fn = "evaluate_condition"
    /\ evalIn.condition.c = "or"
    /\ Len(evalIn.condition.conditions) = 2
    /\ ~evaluate_condition(evalIn.condition.conditions[1], evalIn.context)
    /\ evaluate_condition(evalIn.condition.conditions[2], evalIn.context)
    /\ evalOut = Some(TRUE)

(***************************************************************************)
(* Properties of the batch summary.                                        *)
(***************************************************************************)
\* The successful items that carry a confidence, and the sum of these.
Confident(rs) ==
    {i \in 1..Len(rs) : rs[i].result.success /\ rs[i].result.confidence.some}

RECURSIVE ConfidenceSum(_)
ConfidenceSum(rs) ==
    IF rs = <<>> THEN 0
    ELSE (IF rs[1].result.success /\ rs[1].result.confidence.some
          THEN rs[1].result.confidence.v ELSE 0) + ConfidenceSum(Tail(rs))

\* C19: the summary of a batch that execute_batch returns for a non-empty
\* request carries the mean confidence of its successful items, and no
\* average when no item succeeded.
C19_AverageConfidence ==
    (IsBatchReturn /\ ret.v.request.commands # <<>>) =>
        IF Confident(ret.v.result.results) = {}
        THEN ret.v.result.summary.average_confidence = None
        ELSE /\ ret.v.result.summary.average_confidence.some
             /\ ret.v.result.summary.average_confidence.v
                    * Cardinality(Confident(ret.v.result.results))
                = ConfidenceSum(ret.v.result.results)

\* The batch results returned: by execute_batch on a non-empty request, or
\* by create_batch_result.
ReturnedBatches ==
    (IF IsBatchReturn /\ ret.v.request.commands # <<>> THEN {ret.v.result} ELSE {})
    \cup (IF evalIn.fn = "create_batch_result" /\ evalOut.some THEN {evalOut.v} ELSE {})

Successes(rs) == {i \in 1..Len(rs) : rs[i].result.success}

\* C20: in a batch result returned by execute_batch on a non-empty request
\* or by create_batch_result, total is the number of results, succeeded the
\* number of successful results, succeeded + failed + skipped is total, and
\* success holds exactly when failed is zero; results that all succeeded
\* give succeeded = their number, failed = 0 and success.
C20_SummaryCounts ==
    \A b \in ReturnedBatches :
        /\ b.summary.total = Len(b.results)
        /\ b.summary.succeeded = Cardinality(Successes(b.results))
        /\ b.summary.succeeded + b.summary.failed + b.summary.skipped = b.summary.total
        /\ b.success <=> (b.summary.failed = 0)
        /\ Successes(b.results) = 1..Len(b.results) =>
             /\ b.summary.succeeded = Len(b.results)
             /\ b.summary.failed = 0
             /\ b.success

\* A batch stopped at its first failure: the failure and the placeholder
\* after it are both counted as failed, none as skipped.
C20_Witness ==
    /\ IsBatchReturn
    /\ Len(ret.v.result.results) = 2
    /\ ~ret.v.result.results[1].result.success
    /\ ~IsSkipped(ret.v.result.results[1])
    /\ IsSkipped(ret.v.result.results[2])
    /\ ret.v.result.summary = BatchSummaryNew(2, 0, 2, 0)
    /\ ~ret.v.result.success

\* The placeholders among the results of a batch.
Placeholders(rs) == {i \in 1..Len(rs) : IsSkipped(rs[i])}

\* C21: the summary of a batch that execute_batch returns counts in skipped
\* the results recorded with the COMMAND_SKIPPED error.
C21_SkippedCount ==
    IsBatchReturn =>
        ret.v.result.summary.skipped = Cardinality(Placeholders(ret.v.result.results))

\* The failures among the first n results of a batch.
FailuresIn(rs, n) == {j \in 1..n : ~rs[j].result.success}

\* C22: with max_failures = m, execute_batch dispatches no command once m
\* commands have failed, whatever continue_on_error is: every command
\* after the m-th failure is left undispatched.
C22_MaxFailures ==
    (IsBatchReturn /\ ret.v.request.options.max_failures.some) =>
        \A k \in 1..Len(ret.v.result.results) :
            Cardinality(FailuresIn(ret.v.result.results, k - 1))
                    >= ret.v.request.options.max_failures.v
                => IsSkipped(ret.v.result.results[k])

(***************************************************************************)
(* Properties of command results.                                          *)
(***************************************************************************)
\* The results produced: by a constructor of result.rs, by
\* registry.execute when the command is not registered, and the
\* placeholders of execute_batch.
ProducedResults ==
    (IF evalIn \in ResultCalls /\ evalOut.some THEN {evalOut.v} ELSE {})
    \cup (IF IsExecuteReturn /\ ErrorCode(ret.v.result) = "COMMAND_NOT_FOUND"
          THEN {ret.v.result} ELSE {})
    \cup {CurResults[i].result : i \in Placeholders(CurResults)}

\* C23: every result the core produces has exactly one of data and error,
\* data when success is true and error when it is false, so that exactly
\* one of is_success and is_failure holds of it.
C23_ExactlyOneOfDataAndError ==
    \A r \in ProducedResults :
        /\ r.success => (r.data.some /\ ~r.error.some)
        /\ ~r.success => (r.error.some /\ ~r.data.some)
        /\ is_success(r) # is_failure(r)


(***************************************************************************)
(* Properties of the aggregate functions.                                  *)
(***************************************************************************)
FoldReturned == evalIn \in FoldCalls /\ evalOut.some

\* The index of the step an aggregated entry is attributed to.
OriginIndex(fn, entry) == IF fn = "breakdown" THEN entry.step ELSE entry.step_index

\* C24: no entry of the output of aggregate_pipeline_reasoning, _warnings,
\* _sources, _alternatives or build_confidence_breakdown comes from a step
\* whose status is failure or skipped.
C24_OnlySuccessfulFolded ==
    FoldReturned =>
        \A k \in 1..Len(evalOut.v) :
            evalIn.steps[OriginIndex(evalIn.fn, evalOut.v[k]) + 1].status = "success"

ListFunctions == {"warnings", "sources", "alternatives"}

\* The entries a step carries in one of its metadata lists.
EntriesOf(step, fn) ==
    IF step.metadata.some /\ step.metadata.v[fn].some THEN step.metadata.v[fn].v ELSE <<>>

\* One entry of a step as it must appear in the aggregated list.
Tagged(fn, step, item) ==
    CASE fn = "warnings" ->
             [code |-> item.code, message |-> item.message, step_index |-> step.index,
              step_alias |-> step.alias]
      [] fn = "sources" -> [name |-> item.name, step_index |-> step.index, url |-> item.url]
      [] fn = "alternatives" ->
             [data |-> item.data, reason |-> item.reason, step_index |-> step.index,
              confidence |-> item.confidence]

RECURSIVE EntriesBefore(_, _, _)
\* The number of entries carried by the steps before position i.
EntriesBefore(steps, fn, i) ==
    IF i <= 1 THEN 0
    ELSE EntriesBefore(steps, fn, i - 1) + Len(EntriesOf(steps[i - 1], fn))

\* C25: the aggregated warnings, sources and alternatives are the entries
\* of the steps in step-list order, each step's entries in their own order
\* and tagged with the step's index (warnings with its alias too); the
\* length is the sum of the per-step entry counts.
C25_ConcatenatedInOrder ==
    (FoldReturned /\ evalIn.fn \in ListFunctions) =>
        /\ Len(evalOut.v) = EntriesBefore(evalIn.steps, evalIn.fn, Len(evalIn.steps) + 1)
        /\ \A i \in 1..Len(evalIn.steps) :
             \A k \in 1..Len(EntriesOf(evalIn.steps[i], evalIn.fn)) :
                evalOut.v[EntriesBefore(evalIn.steps, evalIn.fn, i) + k]
                    = Tagged(evalIn.fn, evalIn.steps[i],
                             EntriesOf(evalIn.steps[i], evalIn.fn)[k])

\* Two successful steps with two and one warnings give three entries, the
\* last one attributed to the second step.
C25_Witness ==
    /\ FoldReturned
    /\ evalIn.fn = "warnings"
    /\ Len(evalIn.steps) = 2
    /\ \A i \in 1..2 : evalIn.steps[i].status = "success"
    /\ Len(EntriesOf(evalIn.steps[1], "warnings")) = 2
    /\ Len(EntriesOf(evalIn.steps[2], "warnings")) = 1
    /\ evalOut.v =
         << [code |-> "DEPRECATION", message |-> "This is deprecated", step_index |-> 0,
             step_alias |-> Some(aUser)],
            [code |-> "SLOW", message |-> "took long", step_index |-> 0,
             step_alias |-> Some(aUser)],
            [code |-> "SLOW", message |-> "took long", step_index |-> 1,
             step_alias |-> None] >>


\* The dispatches of the running call that reached a registered handler.
HandledDispatches == {d \in 1..Len(dispatches) : dispatches[d].name \in DOMAIN commands}

\* rs is s successes, then f failures that are no placeholder, then
\* placeholders only.
StopShape(rs, s, f) ==
    /\ s + f <= Len(rs)
    /\ \A i \in 1..s : rs[i].result.success
    /\ \A i \in (s + 1)..(s + f) : ~rs[i].result.success /\ ~IsSkipped(rs[i])
    /\ \A i \in (s + f + 1)..Len(rs) : IsSkipped(rs[i])

\* C26: during and after an execute_batch call with continue_on_error=false
\* the results are successes, then at most one failure that is not
\* COMMAND_SKIPPED, then only COMMAND_SKIPPED placeholders; the dispatches
\* are exactly the items before the placeholders, none is in flight once a
\* failure is recorded, and the handler invocations are the dispatches of
\* registered names, so nothing is dispatched or invoked after the failure.
C26_NothingRunsAfterFailure ==
    ((bpc # "idle" \/ IsBatchReturn) /\ CurRequest.commands # <<>>
                                     /\ ~CurRequest.options.continue_on_error) =>
        \E s \in 0..Len(CurResults), f \in {0, 1} :
            /\ StopShape(CurResults, s, f)
            /\ Len(dispatches) = s + f + (IF bpc = "await" THEN 1 ELSE 0)
            /\ (f = 1) => (bpc # "await")
            /\ Len(OwnInvocations) = Cardinality(HandledDispatches)

\* A success, then an unregistered name, then a placeholder: two dispatches,
\* one handler invocation, while a direct call of execute is suspended in
\* its handler.
C26_Witness ==
    /\ IsBatchReturn
    /\ ~ret.v.request.options.continue_on_error
    /\ Len(ret.v.result.results) = 3
    /\ ret.v.result.results[1].result.success
    /\ ErrorCode(ret.v.result.results[2].result) = "COMMAND_NOT_FOUND"
    /\ IsSkipped(ret.v.result.results[3])
    /\ Len(dispatches) = 2
    /\ Len(OwnInvocations) = 1
    /\ calls # {}


(***************************************************************************)
(* Properties of resolve_variables on data that hold $ strings.            *)
(***************************************************************************)
\* The roots and paths the references of EchoInputs are written with.
EchoReference(text) ==
    CHOOSE r \in References :
        r.text = text /\ r.root.kind \in {"prev", "first", "input"}

RECURSIVE Verbatim(_, _, _)
\* output is input with every $ leaf replaced by the very value the context
\* holds for it, or by null, whatever that value contains.
Verbatim(input, output, context) ==
    IF input.t = "str" /\ Head(input.s) = "$"
    THEN output = UnwrapOrNull(ReferenceValue(EchoReference(input.s), context))
    ELSE IF input.t = "arr"
    THEN /\ output.t = "arr"
         /\ Len(output.a) = Len(input.a)
         /\ \A i \in 1..Len(input.a) : Verbatim(input.a[i], output.a[i], context)
    ELSE IF input.t = "obj"
    THEN /\ output.t = "obj"
         /\ DOMAIN output.o = DOMAIN input.o
         /\ \A k \in DOMAIN input.o : Verbatim(input.o[k], output.o[k], context)
    ELSE output = input

\* C27: resolve_variables returns after one pass, and each reference of
\* its input is replaced by the value the context holds for it, inserted
\* as it is: a value that is or contains a string beginning with $ is not
\* looked up again.
C27_ResolvedOnce ==
    (evalIn \in EchoCalls /\ evalOut.some) =>
        Verbatim(evalIn.input, evalOut.v, evalIn.context)

\* $prev resolves to a step output that is the string $input, which stays
\* in the result although $input resolves to an object; a second call on
\* the result would replace it, so the function is not idempotent.
C27_Witness ==
    /\ evalIn \in EchoCalls
    /\ evalIn.input = JStr(rPrev)
    /\ evalIn.context.pipeline_input = Some(JObj([k \in {kId} |-> JNum(7)]))
    /\ evalOut = Some(JStr(rInput))
    /\ resolve_variables(evalOut.v, evalIn.context) = JObj([k \in {kId} |-> JNum(7)])


(***************************************************************************)
(* Properties of the todo backend.                                         *)
(***************************************************************************)
\* The step is, or follows without another call returning, an update of id
\* with completed = true, and it leaves id in the store (a clear that runs
\* beside the update may remove it).
UpdatedAsCompleted(id) ==
    /\ id \in DOMAIN STORE'
    /\ todoRet'.some
    /\ todoRet'.v.op = "update"
    /\ todoRet'.v.args.id = id
    /\ todoRet'.v.args.completed = Some(TRUE)

\* C28: whatever calls of create, update, toggle, delete and clear are made
\* and however they interleave, every stored todo is completed exactly when
\* it has a completed_at, and an update with completed = true of a todo that
\* is already completed leaves its completed_at as it was.
C28_CompletedIffCompletedAt ==
    [][ /\ \A id \in DOMAIN STORE' :
              STORE'[id].completed <=> STORE'[id].completed_at.some
        /\ \A id \in DOMAIN STORE :
              (UpdatedAsCompleted(id) /\ STORE[id].completed) =>
                  STORE'[id].completed_at = STORE[id].completed_at ]_vars

\* An update with completed = true made at time 1 returned a todo whose
\* completed_at is still 0, the time it was completed at.
C28_Witness ==
    /\ todoRet.some
    /\ todoRet.v.op = "update"
    /\ todoRet.v.args.completed = Some(TRUE)
    /\ todoRet.v.at = 1
    /\ todoRet.v.result.some
    /\ todoRet.v.result.v.completed
    /\ todoRet.v.result.v.completed_at = Some(0)
    /\ STORE[todoRet.v.args.id] = todoRet.v.result.v


StatsReturned == todoRet.some /\ todoRet.v.op = "stats"

\* C29: whatever calls run on the store while the stats handler runs, it
\* returns statistics in which completed <= total, total - completed has
\* not underflowed, completed + pending = total and the three priority
\* counts add up to total.
C29_ConsistentStats ==
    StatsReturned =>
        /\ todoRet.v.result.some
        /\ todoRet.v.result.v.data.v.completed <= todoRet.v.result.v.data.v.total
        /\ ~todoRet.v.result.v.data.v.pending.wraps
        /\ todoRet.v.result.v.data.v.completed + todoRet.v.result.v.data.v.pending.n
             = todoRet.v.result.v.data.v.total
        /\ todoRet.v.result.v.data.v.by_priority.low
             + todoRet.v.result.v.data.v.by_priority.medium
             + todoRet.v.result.v.data.v.by_priority.high
             = todoRet.v.result.v.data.v.total


(***************************************************************************)
(* Properties of the desktop supervisor.                                   *)
(***************************************************************************)
\* C30: after any sequence of calls, none of them being between the spawn and
\* the store of start_backend, at most one spawned sidecar process is alive,
\* every live sidecar process is the one held in SidecarState, and
\* get_server_status returns true exactly when a sidecar process is running.
C30_OneSidecarHeld ==
    starting = {} =>
        /\ Cardinality(alive) <= 1
        /\ \A p \in alive : child = Some(p)
        /\ (reply.some /\ reply.v.cmd = "get_server_status") =>
               (reply.v.value = reply.v.running)

====
